---- MODULE Spec2Model ----
(***************************************************************************)
(* Sphero control and data-collection scripts.                             *)
(*                                                                         *)
(* The repository is a set of scripts that are run one at a time.  The     *)
(* variable `script` records which script the process runs; it is chosen   *)
(* in Init and never changes, and every action belongs to one script:      *)
(*   "working"            src/working.py: sensor_callback, the             *)
(*                        data_writer_thread, main and the SIGINT handler  *)
(*   "working_move"       the same script's command path: main, the SIGINT *)
(*                        handler and continuous_random_movement_thread    *)
(*                        (sensor_callback and the writer take no step)    *)
(*   "with_sensors"       src/sphero_move_and_collect_with_sensors.py:     *)
(*                        run_sensor_and_movement (reconnect loop and      *)
(*                        health monitor), camera thread, SIGINT handler   *)
(*   "with_sensors_move"  the same script's command path:                  *)
(*                        run_sensor_and_movement, the movement_thread it  *)
(*                        starts in every session, SIGINT handler          *)
(*   "with_sensors_data"  the same script's telemetry path:                *)
(*                        sensor_callback, backup_sensor_data_thread and   *)
(*                        data_lock                                        *)
(*   "with_sensors_close" the same file: sensor_callback and the finally   *)
(*                        of main, which closes the CSV file               *)
(*   "unlimited_move"     src/unlimited_move.py: run_continuous_movement   *)
(*   "move_and_collect"   src/sphero_move_and_collect.py: main, which runs *)
(*                        run_continuous_movement, the data-collection and *)
(*                        camera threads, and SIGINT                       *)
(*   "move_and_collect_stamps"  the same file: start_timestamp, as     *)
(*                        sensor_callback and camera_recording_thread      *)
(*                        read and set it                                  *)
(*   "working_callback"   src/working.py: sensor_callback and the row it  *)
(*                        builds from the channel mapping it is passed     *)
(*   "headings"           the drive_with_heading calls of the movement     *)
(*                        routines of src/sphero/sphero_data_collector.py, *)
(*                        src/sphero/sphero-sensor-reader-proper.py and    *)
(*                        src/working.py, with the heading they pass       *)
(*   "bleak"              src/sphero/main.py: a SpheroBLEAK object and the *)
(*                        calls made on it                                 *)
(*                                                                         *)
(* A sample row is represented by the number of the callback invocation    *)
(* that built it (1, 2, ...): invocations of one subscription are          *)
(* sequential, so this number orders the rows the way time.time() at       *)
(* callback entry does.                                                    *)
(***************************************************************************)
EXTENDS Integers, Sequences, FiniteSets, TLC

\* Number of sensor notifications the device delivers in a run of working.py.
MaxSamples == 2

\* Number of sensor notifications the device delivers in a run of
\* sphero_move_and_collect_with_sensors.py.
MaxDataSamples == 5

\* Number of connection attempts of run_sensor_and_movement that the device
\* accepts; every later attempt fails.
MaxSessions == 2

\* Longest run of consecutive failures of execute_movement (working.py); the
\* next command after such a run succeeds.
MaxDriveFaults == 11

\* Latest reading of time.time() in a run of sphero_move_and_collect.py or
\* of working.py, counted in clock ticks from the start of the run.
MaxClock == 2

\* working.py, line 191: max_errors of continuous_random_movement_thread.
wm_max_errors == 10

\* sphero_move_and_collect_with_sensors.py, lines 379 and 409.
max_reconnects == 10
max_errors == 5

\* sphero_move_and_collect_with_sensors.py, line 159: flush every 5 rows.
FlushEvery == 5

\* sphero/main.py, lines 24 and 26 (0x0D, 0x30) and line 130 (0x8D).
CMD_WAKE == 13
CMD_DRIVE == 48
RequestFlags == 141

\* Arguments with which SpheroBLEAK.drive is called: below, inside and above
\* 0..255, and headings that are negative, in range (one below and one
\* above 255), 360 and more than one turn.
Speeds == {-3, 120, 300}
Headings == {-90, 45, 359, 360, 725}

VARIABLES
    script,
    \* ---- working.py ----
    wk_running,     \* global running (line 26)
    wk_alive,       \* the process has not called os._exit
    wk_timer,       \* the threading.Timer armed by signal_handler (line 46)
    data_buffer,    \* global data_buffer (line 27)
    buffer_lock,    \* holder of buffer_lock (line 28): "free", "cb", "writer"
    total_samples,  \* global total_samples (line 29)
    csv_rows,       \* data rows of the CSV file, in file order
    buffer_copy,    \* data_writer_thread's local buffer_copy
    wpc,            \* data_writer_thread's position
    wfinal,         \* data_writer_thread has left its while loop (line 151 on)
    cpc,            \* sensor_callback's position
    data_row,       \* sensor_callback's local data_row
    mpc,            \* main's position
    notify,         \* sensor notifications are subscribed (set_notify .. cancel)
    delivered,      \* number of notifications delivered so far
    appended,       \* history: rows appended to data_buffer, in order
    lost,           \* history: rows of batches whose write raised, and that
                    \* the failed write did not put into the file
    \* ---- working.py, continuous_random_movement_thread ----
    mvpc,           \* continuous_random_movement_thread's position
    error_count,    \* its local error_count (line 190)
    consecutive_movement_errors,    \* global (line 30)
    last_successful_movement,       \* global (line 31)
    wm_failed,      \* history: calls of execute_movement in which
                    \* drive_with_heading raised, since the last call in
                    \* which it returned
    wm_recovery,    \* history: outcome of the recovery command of the
                    \* current pass of the loop: "none", "ok", "raised"
    \* ---- sphero_move_and_collect_with_sensors.py, control ----
    ws_running,         \* global running (line 47)
    ws_alive,           \* the process has not called os._exit
    spc,                \* run_sensor_and_movement's position
    reconnect_count,    \* local reconnect_count (line 378)
    consecutive_errors, \* local consecutive_errors (line 408)
    cam,                \* camera_recording_thread's position
    ws_attempts,        \* history: connection attempts started
    ws_delays,          \* history: 5-second retry delays started
    ws_sessions,        \* history: attempts that connected
    ws_late,            \* history: attempts and delays started while
                        \* running was already False
    fail_streak,        \* history: failed battery queries of this session
                        \* since its last successful one
    ws_teardown,        \* history: why the monitor loop was last left
    ws_streaming,       \* the open session has sensor notifications
                        \* subscribed (set_notify, line 392)
    ws_health_pending,  \* history: the monitor loop was left by the break
                        \* of line 428 and no connection attempt has been
                        \* started since
    ws_sigint,          \* history: signal_handler has run
    mv_pcs,             \* positions of the movement_thread instances, in
                        \* the order they were started (line 404)
    \* ---- sphero_move_and_collect_with_sensors.py, telemetry ----
    sensor_data,        \* global sensor_data (line 49)
    data_lock,          \* holder of data_lock (line 48): "free", "cb", "backup"
    csv_file,           \* rows written through csv_writer (line 155)
    csv_flushed,        \* how many of them csv_file.flush() has put on disk
    data_points_counter,\* global data_points_counter (line 55)
    scpc,               \* sensor_callback's position
    sdata_row,          \* sensor_callback's local data_row
    sdelivered,         \* number of notifications delivered so far
    bpc,                \* backup_sensor_data_thread's position
    data_copy,          \* backup_sensor_data_thread's local data_copy
    backup_file,        \* rows of the backup file
    csv_open,           \* the file of csv_file (line 88) has not been closed
    mfpc,               \* main's position once run_sensor_and_movement is
                        \* over
    \* ---- unlimited_move.py ----
    um_running,         \* global running (line 16)
    upc,                \* run_continuous_movement's position
    um_late,            \* history: attempts and delays started while
                        \* running was already False
    um_fault,           \* history: what raised last in
                        \* run_continuous_movement: "none", "connect",
                        \* "initial" (lines 47-54) or "command"
    \* ---- sphero_move_and_collect.py ----
    mc_running,         \* global running (line 39)
    mc_alive,           \* the process has not ended
    mc_handler,         \* the handler installed for SIGINT: "default",
                        \* "module" (line 285) or "unlimited_move"
                        \* (unlimited_move.py, line 28)
    mcpc,               \* main's position
    mc_data,            \* data_collection_thread's position
    mc_cam,             \* camera_recording_thread's position
    \* ---- the movement routines' drive_with_heading calls ----
    hd_caller,          \* history: the routine that made the latest call
    hd_heading,         \* history: the heading it passed
    \* ---- sphero/main.py, SpheroBLEAK ----
    is_connected,       \* self.is_connected (line 34)
    client,             \* self.client (line 33): "none", or the state of
                        \* the BleakClient's connection, "open" or "closed"
    sequence,           \* self.sequence (line 35)
    bl_op,              \* history: the latest call made on the object
    bl_args,            \* history: its arguments
    bl_ret,             \* history: its return value
    bl_wire,            \* history: the packet it wrote to the device,
                        \* << >> if it wrote none
    \* ---- sphero_move_and_collect.py, start_timestamp ----
    clock,              \* the latest value time.time() has returned
    start_timestamp,    \* global start_timestamp (line 43)
    current_time,       \* sensor_callback's local (line 71)
    recording_start_time, \* camera_recording_thread's local (line 201)
    stcb,               \* sensor_callback's position
    stcam,              \* camera_recording_thread's position
    st_rows,            \* the relative_timestamp of every row appended to
                        \* sensor_data (lines 101-109), in order
    st_calls,           \* history: invocations of sensor_callback so far
    st_assigned,        \* history: assignments to start_timestamp so far
    \* ---- working.py, sensor_callback's rows ----
    cb_data_buffer,     \* global data_buffer (line 26), as rows of fields
    cb_total_samples,   \* global total_samples (line 28)
    cb_response,        \* history: the mapping passed to the latest
                        \* invocation
    cb_raised           \* history: the latest invocation raised inside the
                        \* try block

wkVars == << wk_running, wk_alive, wk_timer, data_buffer, buffer_lock,
             total_samples, csv_rows, buffer_copy, wpc, wfinal, cpc, data_row,
             mpc, notify, delivered, appended, lost >>

wmVars == << mvpc, error_count, consecutive_movement_errors, wm_recovery,
            last_successful_movement, wm_failed >>

wsVars == << ws_running, ws_alive, spc, reconnect_count, consecutive_errors,
             cam, ws_attempts, ws_delays, ws_sessions, ws_late, fail_streak,
             ws_teardown, ws_streaming, ws_health_pending, ws_sigint, mv_pcs >>

wsExt == << ws_streaming, ws_health_pending, ws_sigint >>

\* What the movement_thread instances leave unchanged.
wsSupVars == << ws_running, ws_alive, spc, reconnect_count, consecutive_errors,
                cam, ws_attempts, ws_delays, ws_sessions, ws_late, fail_streak,
                ws_teardown, wsExt >>

wdData == << sensor_data, data_lock, csv_file, csv_flushed, data_points_counter,
             scpc, sdata_row, sdelivered, bpc, data_copy, backup_file >>

wdMain == << csv_open, mfpc >>

wdVars == << wdData, wdMain >>

umVars == << um_running, upc, um_late, um_fault >>

mcVars == << mc_running, mc_alive, mc_handler, mcpc, mc_data, mc_cam >>

hdVars == << hd_caller, hd_heading >>

blVars == << is_connected, client, sequence, bl_op, bl_args, bl_ret, bl_wire >>

stVars == << clock, start_timestamp, current_time, recording_start_time, stcb,
             stcam, st_rows, st_calls, st_assigned >>

\* The variables of the views of single routines.
cbVars == << cb_data_buffer, cb_total_samples, cb_response, cb_raised >>

exVars == << stVars, cbVars >>

vars == << script, wkVars, wmVars, wsVars, wdVars, umVars, mcVars, hdVars,
          blVars, exVars >>

\* What the actions of one script leave alone in the others.
wkForeign == << script, wsVars, wdVars, umVars, mcVars, hdVars, blVars,
               exVars >>
wkOthers == << wkForeign, wmVars >>
wsOthers == << script, wkVars, wmVars, umVars, mcVars, hdVars, blVars,
              exVars >>
umOthers == << script, wkVars, wmVars, wsVars, wdVars, mcVars, hdVars,
              blVars, exVars >>
mcOthers == << script, wkVars, wmVars, wsVars, wdVars, hdVars, blVars,
              exVars >>
blOthers == << script, wkVars, wmVars, wsVars, wdVars, umVars, mcVars,
              hdVars, exVars >>
hdOthers == << script, wkVars, wmVars, wsVars, wdVars, umVars, mcVars,
              blVars, exVars >>
stOthers == << script, wkVars, wmVars, wsVars, wdVars, umVars, mcVars,
              hdVars, blVars, cbVars >>
cbOthers == << script, wkVars, wmVars, wsVars, wdVars, umVars, mcVars,
              hdVars, blVars, stVars >>

\* What sensor_callback, data_writer_thread and main/signal_handler of
\* working.py leave alone, besides the variables of the other scripts.
wkCtl == << wk_running, wk_alive, wk_timer, mpc, notify >>
wkCb  == << cpc, data_row, delivered >>
wkWr  == << wpc, wfinal, buffer_copy, csv_rows, lost >>
wkBuf == << data_buffer, buffer_lock, total_samples, appended >>

Prefix(s, k) == SubSeq(s, 1, k)

----------------------------------------------------------------------------
(* working.py *)

InitWorking ==
    /\ wk_running = TRUE
    /\ wk_alive = TRUE
    /\ wk_timer = "off"
    /\ data_buffer = << >>
    /\ buffer_lock = "free"
    /\ total_samples = 0
    /\ csv_rows = << >>
    /\ buffer_copy = << >>
    /\ wpc = "unstarted"
    /\ wfinal = FALSE
    /\ cpc = "idle"
    /\ data_row = 0
    /\ mpc = "start"
    /\ notify = FALSE
    /\ delivered = 0
    /\ appended = << >>
    /\ lost = {}

Working == script = "working" /\ wk_alive

\* The first field of a data row of working.py (lines 70 and 101): the
\* reading of time.time() at the entry of the callback that built the row.  The
\* notifications of a subscription are dispatched one at a time and at
\* least INTERVAL apart, so that the k-th callback reads a later time than
\* the callbacks before it; the system clock is not set back while the
\* script runs.  A row is represented by the ordinal of its callback, and
\* the readings are ordered as the ordinals are.
timestamp(row) == row

\* The first field of a data row of sphero_move_and_collect_with_sensors.py
\* (lines 110-115 and 142): the reading at the entry of the callback, less
\* start_timestamp, which is the reading of the first callback and is not
\* assigned again.
relative_timestamp(row) == timestamp(row) - timestamp(1)

\* main, signal_handler and force_exit are part of both views of working.py.
WorkingCtl == script \in {"working", "working_move"} /\ wk_alive

\* sensor_callback, lines 66-104: the timestamp is taken and the row built.
\* A payload that cannot be processed (response.items() raises) is caught by
\* the except of line 115: nothing is appended.
CbEnter ==
    /\ Working
    /\ notify
    /\ cpc = "idle"
    /\ delivered < MaxSamples
    /\ delivered' = delivered + 1
    /\ \E payloadOk \in BOOLEAN :
          IF payloadOk
          THEN /\ data_row' = delivered + 1
               /\ cpc' = "lock"
          ELSE /\ UNCHANGED data_row
               /\ cpc' = "idle"
    /\ UNCHANGED << wkOthers, wkCtl, wkWr, wkBuf >>

\* Mutant of CbAcquire: the callback goes on to append without taking the lock.
CbAcquire_NoLock ==
    /\ Working
    /\ cpc = "lock"
    /\ cpc' = "append"
    /\ UNCHANGED << wkOthers, wkCtl, wkWr, wkBuf, data_row, delivered >>

\* line 107: with buffer_lock (acquire)
CbAcquire ==
    /\ Working
    /\ cpc = "lock"
    /\ buffer_lock = "free"
    /\ buffer_lock' = "cb"
    /\ cpc' = "append"
    /\ UNCHANGED << wkOthers, wkCtl, wkWr, data_buffer, total_samples, appended,
                    data_row, delivered >>

\* Mutant of CbAppend: the row is put in front of the buffer.
CbAppend_Prepend ==
    /\ Working
    /\ cpc = "append"
    /\ data_buffer' = << data_row >> \o data_buffer
    /\ total_samples' = total_samples + 1
    /\ appended' = Append(appended, data_row)
    /\ cpc' = "release"
    /\ UNCHANGED << wkOthers, wkCtl, wkWr, buffer_lock, data_row, delivered >>

\* lines 108-109: data_buffer.append(data_row); total_samples += 1
CbAppend ==
    /\ Working
    /\ cpc = "append"
    /\ data_buffer' = Append(data_buffer, data_row)
    /\ total_samples' = total_samples + 1
    /\ appended' = Append(appended, data_row)
    /\ cpc' = "release"
    /\ UNCHANGED << wkOthers, wkCtl, wkWr, buffer_lock, data_row, delivered >>

\* end of the with block of line 107 (release)
CbRelease ==
    /\ Working
    /\ cpc = "release"
    /\ buffer_lock' = "free"
    /\ cpc' = "idle"
    /\ UNCHANGED << wkOthers, wkCtl, wkWr, data_buffer, total_samples, appended,
                    data_row, delivered >>

\* data_writer_thread, lines 124-131: the header is written.  If the file
\* cannot be created the exception ends the thread.
WriterHeader ==
    /\ Working
    /\ wpc = "header"
    /\ \E ok \in BOOLEAN : wpc' = IF ok THEN "loop" ELSE "crashed"
    /\ UNCHANGED << wkOthers, wkCtl, wkCb, wkBuf, wfinal, buffer_copy,
                    csv_rows, lost >>

\* line 133: while running
WriterLoop ==
    /\ Working
    /\ wpc = "loop"
    /\ IF wk_running
       THEN /\ wpc' = "check_len"
            /\ UNCHANGED wfinal
       ELSE /\ wpc' = "check_len"
            /\ wfinal' = TRUE
    /\ UNCHANGED << wkOthers, wkCtl, wkCb, wkBuf, buffer_copy, csv_rows, lost >>

\* lines 136 and 153: if len(data_buffer) > 0 (read without the lock);
\* in the loop an empty buffer leads to the sleep, after it to the end.
WriterCheckLen ==
    /\ Working
    /\ wpc = "check_len"
    /\ wpc' = IF Len(data_buffer) > 0 THEN "acquire"
              ELSE IF wfinal THEN "done" ELSE "sleep"
    /\ UNCHANGED << wkOthers, wkCtl, wkCb, wkBuf, wfinal, buffer_copy,
                    csv_rows, lost >>

\* lines 138 and 154: with buffer_lock (acquire)
WriterAcquire ==
    /\ Working
    /\ wpc = "acquire"
    /\ buffer_lock = "free"
    /\ buffer_lock' = "writer"
    /\ wpc' = "copy"
    /\ UNCHANGED << wkOthers, wkCtl, wkCb, data_buffer, total_samples,
                    appended, wfinal, buffer_copy, csv_rows, lost >>

\* lines 139 and 155: buffer_copy = data_buffer.copy()
WriterCopy ==
    /\ Working
    /\ wpc = "copy"
    /\ buffer_copy' = data_buffer
    /\ wpc' = "clear"
    /\ UNCHANGED << wkOthers, wkCtl, wkCb, wkBuf, wfinal, csv_rows, lost >>

\* Mutant of WriterClear: the buffer is not cleared after the copy.
WriterClear_Skip ==
    /\ Working
    /\ wpc = "clear"
    /\ wpc' = "release"
    /\ UNCHANGED << wkOthers, wkCtl, wkCb, wkBuf, wfinal, buffer_copy, csv_rows,
                    lost >>

\* lines 140 and 156: data_buffer.clear()
WriterClear ==
    /\ Working
    /\ wpc = "clear"
    /\ data_buffer' = << >>
    /\ wpc' = "release"
    /\ UNCHANGED << wkOthers, wkCtl, wkCb, buffer_lock, total_samples, appended,
                    wfinal, buffer_copy, csv_rows, lost >>

\* Mutant of WriterRelease: the write is made inside the with block.
WriterRelease_Late ==
    /\ Working
    /\ wpc = "release"
    /\ wpc' = "write"
    /\ UNCHANGED << wkOthers, wkCtl, wkCb, wkBuf, wfinal, buffer_copy, csv_rows,
                    lost >>

\* end of the with blocks of lines 138 and 154 (release)
WriterRelease ==
    /\ Working
    /\ wpc = "release"
    /\ buffer_lock' = "free"
    /\ wpc' = "write"
    /\ UNCHANGED << wkOthers, wkCtl, wkCb, data_buffer, total_samples,
                    appended, wfinal, buffer_copy, csv_rows, lost >>

Reverse(s) == [ i \in 1..Len(s) |-> s[Len(s) + 1 - i] ]

\* Mutant of write_buffer_to_file: the rows are written last first.
write_buffer_reversed(file, buffer) == file \o Reverse(buffer)

\* write_buffer_to_file, lines 59-64: the rows of buffer are appended to the
\* file in list order.
write_buffer_to_file(file, buffer) == file \o buffer

\* Mutant of WriterWrite: the rows a failed write did not put into the file
\* are put back at the head of data_buffer.
WriterWrite_Requeue ==
    /\ Working
    /\ wpc = "write"
    /\ \E k \in 0..Len(buffer_copy) :
          /\ csv_rows' = write_buffer_to_file(csv_rows, Prefix(buffer_copy, k))
          /\ lost' = lost \cup { buffer_copy[i] : i \in (k+1)..Len(buffer_copy) }
          /\ data_buffer' =
                SubSeq(buffer_copy, k + 1, Len(buffer_copy)) \o data_buffer
          /\ wpc' = IF wfinal THEN "done"
                    ELSE IF k = Len(buffer_copy) THEN "sleep" ELSE "loop"
    /\ UNCHANGED << wkOthers, wkCtl, wkCb, buffer_lock, total_samples, appended,
                    wfinal, buffer_copy >>

\* lines 143 and 157: write_buffer_to_file(filename, buffer_copy).  A storage
\* fault leaves a proper prefix of the batch in the file; the exception is
\* caught at line 148 (back to the while test, the sleep is skipped) or at
\* line 159 (the thread ends).  The batch is not put back into data_buffer.
WriterWrite ==
    /\ Working
    /\ wpc = "write"
    /\ \E k \in 0..Len(buffer_copy) :
          /\ csv_rows' = write_buffer_to_file(csv_rows, Prefix(buffer_copy, k))
          /\ lost' = lost \cup { buffer_copy[i] : i \in (k+1)..Len(buffer_copy) }
          /\ wpc' = IF wfinal THEN "done"
                    ELSE IF k = Len(buffer_copy) THEN "sleep" ELSE "loop"
    /\ UNCHANGED << wkOthers, wkCtl, wkCb, wkBuf, wfinal, buffer_copy >>

\* line 147: time.sleep(1)
WriterSleep ==
    /\ Working
    /\ wpc = "sleep"
    /\ wpc' = "loop"
    /\ UNCHANGED << wkOthers, wkCtl, wkCb, wkBuf, wfinal, buffer_copy,
                    csv_rows, lost >>

\* main, lines 241-251: the writer thread is started.
MainStart ==
    /\ WorkingCtl
    /\ mpc = "start"
    /\ wpc' = "header"
    /\ mpc' = "connect"
    /\ UNCHANGED << wkOthers, wkCb, wkBuf, wk_running, wk_alive, wk_timer, notify,
                    wfinal, buffer_copy, csv_rows, lost >>

\* main, lines 253-264: the session is opened, the ball woken,
\* last_successful_movement set to the run's first reading of time.time()
\* (line 259) and the movement thread started.  An exception here is outside main's try: it
\* leaves main, and the script's finally (line 352) ends the process.
MainConnect ==
    /\ WorkingCtl
    /\ mpc = "connect"
    /\ \E ok \in BOOLEAN :
          IF ok
          THEN /\ mpc' = "set_notify"
               /\ last_successful_movement' = 1
               /\ mvpc' = "while"
               /\ UNCHANGED wk_alive
          ELSE /\ mpc' = "exited"
               /\ wk_alive' = FALSE
               /\ UNCHANGED << mvpc, last_successful_movement >>
    /\ UNCHANGED << wkForeign, wkCb, wkBuf, wkWr, wk_running, wk_timer, notify,
                    error_count, consecutive_movement_errors, wm_recovery,
                    wm_failed >>

\* main, lines 270-285: sensor.set_notify(sensor_callback, ...); an exception
\* is caught at line 306 and leads to the finally block.
MainSetNotify ==
    /\ WorkingCtl
    /\ mpc = "set_notify"
    /\ \E ok \in BOOLEAN :
          IF ok
          THEN notify' = TRUE /\ mpc' = "loop"
          ELSE UNCHANGED notify /\ mpc' = "finally"
    /\ UNCHANGED << wkOthers, wkCb, wkBuf, wkWr, wk_running, wk_alive, wk_timer >>

\* main, lines 289-305: the loop is left when running is False, when the
\* runtime has elapsed, or by an exception.
MainLoopExit ==
    /\ WorkingCtl
    /\ mpc = "loop"
    /\ \E elapsed \in BOOLEAN : ~wk_running \/ elapsed
    /\ mpc' = "finally"
    /\ UNCHANGED << wkOthers, wkCb, wkBuf, wkWr, wk_running, wk_alive, wk_timer,
                    notify >>

\* main, line 310: running = False
MainFinally ==
    /\ WorkingCtl
    /\ mpc = "finally"
    /\ wk_running' = FALSE
    /\ mpc' = "cancel"
    /\ UNCHANGED << wkOthers, wkCb, wkBuf, wkWr, wk_alive, wk_timer, notify >>

\* main, lines 313-325: sensor.cancel_notify_sensors() ends the
\* notifications unless it raises (the exception is only printed); then
\* enter_soft_sleep.
MainCancel ==
    /\ WorkingCtl
    /\ mpc = "cancel"
    /\ \E ok \in BOOLEAN : notify' = IF ok THEN FALSE ELSE notify
    /\ mpc' = "join"
    /\ UNCHANGED << wkOthers, wkCb, wkBuf, wkWr, wk_running, wk_alive, wk_timer >>

\* main, line 329: writer_thread.join(timeout=3) returns when the writer has
\* ended or when the timeout expires.
MainJoin ==
    /\ WorkingCtl
    /\ mpc = "join"
    /\ \E timeout \in BOOLEAN : wpc \in {"done", "crashed"} \/ timeout
    /\ mpc' = "return"
    /\ UNCHANGED << wkOthers, wkCb, wkBuf, wkWr, wk_running, wk_alive, wk_timer,
                    notify >>

\* main returns; the script's finally calls os._exit(0) (line 352).
MainReturn ==
    /\ WorkingCtl
    /\ mpc = "return"
    /\ mpc' = "exited"
    /\ wk_alive' = FALSE
    /\ UNCHANGED << wkOthers, wkCb, wkBuf, wkWr, wk_running, wk_timer, notify >>

\* signal_handler, lines 40-46: running = False and the 5-second timer.
WkSignalHandler ==
    /\ WorkingCtl
    /\ wk_running' = FALSE
    /\ wk_timer' = "armed"
    /\ UNCHANGED << wkOthers, wkCb, wkBuf, wkWr, wk_alive, mpc, notify >>

\* Mutant of force_exit: the timer fires and the process goes on.
force_exit_Returns ==
    /\ WorkingCtl
    /\ wk_timer = "armed"
    /\ wk_timer' = "fired"
    /\ UNCHANGED << wkOthers, wkCb, wkBuf, wkWr, wk_running, wk_alive, mpc,
                    notify >>

\* force_exit, lines 33-38, called when the timer fires.
force_exit ==
    /\ WorkingCtl
    /\ wk_timer = "armed"
    /\ wk_alive' = FALSE
    /\ wk_timer' = "fired"
    /\ UNCHANGED << wkOthers, wkCb, wkBuf, wkWr, wk_running, mpc, notify >>

NextWorking ==
    \/ CbEnter \/ CbAcquire \/ CbAppend \/ CbRelease
    \/ WriterHeader \/ WriterLoop \/ WriterCheckLen \/ WriterAcquire
    \/ WriterCopy \/ WriterClear \/ WriterRelease \/ WriterWrite \/ WriterSleep
    \/ MainStart \/ MainConnect \/ MainSetNotify \/ MainLoopExit \/ MainFinally
    \/ MainCancel \/ MainJoin \/ MainReturn
    \/ WkSignalHandler \/ force_exit

----------------------------------------------------------------------------
(* working.py: continuous_random_movement_thread and execute_movement.     *)
(* last_successful_movement (lines 31, 172, 259) is written and never read *)
(* by the script; its value is a reading of time.time() in clock ticks.    *)

InitWorkingMove ==
    /\ mvpc = "unstarted"
    /\ error_count = 0
    /\ consecutive_movement_errors = 0
    /\ wm_recovery = "none"
    /\ last_successful_movement = 0
    /\ wm_failed = 0

WorkingMove == script = "working_move" /\ wk_alive

\* execute_movement, line 172: time.time(), read after the reading that
\* last_successful_movement holds
Later(t) == {u \in t..(t + 1) : u <= MaxClock}

\* Mutant of MvWhile: the thread does not test running.
MvWhile_IgnoresFlag ==
    /\ WorkingMove
    /\ mvpc = "while"
    /\ mvpc' = "move"
    /\ wm_recovery' = "none"
    /\ UNCHANGED << wkForeign, wkVars, error_count,
                    consecutive_movement_errors, last_successful_movement,
                    wm_failed >>

\* line 193: while running
MvWhile ==
    /\ WorkingMove
    /\ mvpc = "while"
    /\ mvpc' = IF wk_running THEN "move" ELSE "done"
    /\ wm_recovery' = "none"
    /\ UNCHANGED << wkForeign, wkVars, error_count,
                    consecutive_movement_errors, last_successful_movement,
                    wm_failed >>

\* Mutant of MvExecute: a failed command ends the thread.
MvExecute_FaultFatal ==
    /\ WorkingMove
    /\ mvpc = "move"
    /\ \E ok \in BOOLEAN :
          IF ok \/ consecutive_movement_errors >= MaxDriveFaults
          THEN /\ consecutive_movement_errors' = 0
               /\ last_successful_movement' \in Later(last_successful_movement)
               /\ wm_failed' = 0
               /\ error_count' = 0
               /\ mvpc' = "sleep"
          ELSE /\ consecutive_movement_errors' = consecutive_movement_errors + 1
               /\ wm_failed' = wm_failed + 1
               /\ UNCHANGED last_successful_movement
               /\ error_count' = error_count + 1
               /\ mvpc' = "done"
    /\ UNCHANGED << wkForeign, wkVars, wm_recovery >>

\* Mutant of MvExecute: a command that succeeds leaves
\* consecutive_movement_errors as it is.
MvExecute_NoReset ==
    /\ WorkingMove
    /\ mvpc = "move"
    /\ \E ok \in BOOLEAN :
          IF ok \/ consecutive_movement_errors >= MaxDriveFaults
          THEN /\ UNCHANGED consecutive_movement_errors
               /\ last_successful_movement' \in Later(last_successful_movement)
               /\ wm_failed' = 0
               /\ error_count' = 0
               /\ mvpc' = "sleep"
          ELSE /\ consecutive_movement_errors' = consecutive_movement_errors + 1
               /\ wm_failed' = wm_failed + 1
               /\ UNCHANGED last_successful_movement
               /\ error_count' = error_count + 1
               /\ mvpc' = IF error_count' >= wm_max_errors
                          THEN "recover" ELSE "sleep"
    /\ UNCHANGED << wkForeign, wkVars, wm_recovery >>

\* lines 195-217 with execute_movement (lines 162-182): one random command.
\* drive_with_heading returns or raises; execute_movement catches the
\* exception and counts it, and the thread counts it in error_count and
\* goes to the recovery at max_errors.
MvExecute ==
    /\ WorkingMove
    /\ mvpc = "move"
    /\ \E ok \in BOOLEAN :
          IF ok \/ consecutive_movement_errors >= MaxDriveFaults
          THEN /\ consecutive_movement_errors' = 0
               /\ last_successful_movement' \in Later(last_successful_movement)
               /\ wm_failed' = 0
               /\ error_count' = 0
               /\ mvpc' = "sleep"
          ELSE /\ consecutive_movement_errors' = consecutive_movement_errors + 1
               /\ wm_failed' = wm_failed + 1
               /\ UNCHANGED last_successful_movement
               /\ error_count' = error_count + 1
               /\ mvpc' = IF error_count' >= wm_max_errors
                          THEN "recover" ELSE "sleep"
    /\ UNCHANGED << wkForeign, wkVars, wm_recovery >>

\* lines 218-225: drive_with_heading(30, ...) called directly; when it
\* returns, sleep(0.5) and error_count = 0; when it raises, except: pass.
MvRecover ==
    /\ WorkingMove
    /\ mvpc = "recover"
    /\ \E ok \in BOOLEAN :
          IF ok
          THEN error_count' = 0 /\ wm_recovery' = "ok"
          ELSE UNCHANGED error_count /\ wm_recovery' = "raised"
    /\ mvpc' = "sleep"
    /\ UNCHANGED << wkForeign, wkVars, consecutive_movement_errors,
                    last_successful_movement, wm_failed >>

\* lines 227-230: time.sleep(sleep_time).  Nothing else in the try block
\* raises, so the handler of lines 232-234 has no step.
MvSleep ==
    /\ WorkingMove
    /\ mvpc = "sleep"
    /\ mvpc' = "while"
    /\ UNCHANGED << wkForeign, wkVars, error_count,
                    consecutive_movement_errors, wm_recovery,
                    last_successful_movement, wm_failed >>

NextWorkingMove ==
    \/ MvWhile \/ MvExecute \/ MvRecover \/ MvSleep

----------------------------------------------------------------------------
(* sphero_move_and_collect_with_sensors.py: run_sensor_and_movement *)

InitWsControl ==
    /\ ws_running = TRUE
    /\ ws_alive = TRUE
    /\ spc = "while"
    /\ reconnect_count = 0
    /\ consecutive_errors = 0
    /\ cam = "init"
    /\ ws_attempts = 0
    /\ ws_delays = 0
    /\ ws_sessions = 0
    /\ ws_late = 0
    /\ fail_streak = 0
    /\ ws_teardown = "none"
    /\ ws_streaming = FALSE
    /\ ws_health_pending = FALSE
    /\ ws_sigint = FALSE
    /\ mv_pcs = << >>

WsControl == script = "with_sensors" /\ ws_alive

\* run_sensor_and_movement is part of both views of the control path.
WsSup == script \in {"with_sensors", "with_sensors_move"} /\ ws_alive

Late(flag) == IF flag THEN 0 ELSE 1

\* line 381: while running and reconnect_count < max_reconnects
SupWhile ==
    /\ WsSup
    /\ spc = "while"
    /\ spc' = IF ws_running /\ reconnect_count < max_reconnects
              THEN "connect" ELSE "post"
    /\ UNCHANGED << wsOthers, wdVars, mv_pcs, wsExt, ws_running, ws_alive, reconnect_count,
                    consecutive_errors, cam, ws_attempts, ws_delays, ws_sessions,
                    ws_late, fail_streak, ws_teardown >>

\* line 385: with Sphero(mac_address=MAC_ADDRESS) as sphero -- a connection
\* attempt.  It connects or raises (caught at line 444).
SupConnect ==
    /\ WsSup
    /\ spc = "connect"
    /\ ws_attempts' = ws_attempts + 1
    /\ ws_late' = ws_late + Late(ws_running)
    /\ ws_health_pending' = FALSE
    /\ \E ok \in BOOLEAN :
          IF ok /\ ws_sessions < MaxSessions
          THEN spc' = "setup" /\ ws_sessions' = ws_sessions + 1
          ELSE spc' = "except" /\ UNCHANGED ws_sessions
    /\ UNCHANGED << wsOthers, wdVars, mv_pcs, ws_streaming, ws_sigint, ws_running, ws_alive, reconnect_count,
                    consecutive_errors, cam, ws_delays, fail_streak, ws_teardown >>

\* Mutant of SupSetup: the new session keeps the old consecutive_errors.
SupSetup_NoReset ==
    /\ WsSup
    /\ spc = "setup"
    /\ \E ok \in BOOLEAN :
          IF ok
          THEN /\ spc' = "monitor"
               /\ ws_streaming' = TRUE
               /\ mv_pcs' = Append(mv_pcs, "loop")
               /\ fail_streak' = 0
          ELSE /\ spc' = "except"
               /\ ws_streaming' = FALSE
               /\ UNCHANGED << fail_streak, mv_pcs >>
    /\ UNCHANGED << wsOthers, wdVars, ws_health_pending, ws_sigint, ws_running,
                    ws_alive, reconnect_count, consecutive_errors, cam,
                    ws_attempts, ws_delays, ws_sessions, ws_late, ws_teardown >>

\* lines 386-409: wake, set_notify, the movement thread is started,
\* consecutive_errors = 0.  An exception of wake or set_notify closes the
\* session (no notification is subscribed) and is caught at line 444.
SupSetup ==
    /\ WsSup
    /\ spc = "setup"
    /\ \E ok \in BOOLEAN :
          IF ok
          THEN /\ spc' = "monitor"
               /\ ws_streaming' = TRUE
               /\ mv_pcs' = Append(mv_pcs, "loop")
               /\ consecutive_errors' = 0
               /\ fail_streak' = 0
          ELSE /\ spc' = "except"
               /\ ws_streaming' = FALSE
               /\ UNCHANGED << consecutive_errors, fail_streak, mv_pcs >>
    /\ UNCHANGED << wsOthers, wdVars, ws_health_pending, ws_sigint, ws_running,
                    ws_alive, reconnect_count, cam, ws_attempts, ws_delays,
                    ws_sessions, ws_late, ws_teardown >>

\* line 411: while running (the monitor loop)
SupMonitor ==
    /\ WsSup
    /\ spc = "monitor"
    /\ IF ws_running
       THEN spc' = "poll" /\ UNCHANGED ws_teardown
       ELSE spc' = "close" /\ ws_teardown' = "stop"
    /\ UNCHANGED << wsOthers, wdVars, mv_pcs, wsExt, ws_running, ws_alive, reconnect_count,
                    consecutive_errors, cam, ws_attempts, ws_delays, ws_sessions,
                    ws_late, fail_streak >>

\* Mutant of BatteryOk: a successful query does not reset the counter.
BatteryOk_NoReset(errors) == errors

\* line 421: consecutive_errors = 0
BatteryOk(errors) == 0

\* line 424: consecutive_errors += 1
BatteryFailed(errors) == errors + 1

\* line 426: if consecutive_errors >= max_errors
TooManyErrors(errors) == errors >= max_errors

\* lines 412-432: one pass of the monitor loop.  When 10 seconds have passed
\* since the last check the battery voltage is queried; the pass ends with
\* the 1-second sleep, or with the break of line 428.  The handler of lines
\* 434-440 covers only time.time(), time.sleep() and the assignment of
\* last_status_time, which do not raise: it has no step here.
SupPoll ==
    /\ WsSup
    /\ spc = "poll"
    /\ \E due \in BOOLEAN, ok \in BOOLEAN :
          IF ~due
          THEN /\ spc' = "monitor"
               /\ UNCHANGED << consecutive_errors, fail_streak, ws_teardown,
                               ws_health_pending >>
          ELSE IF ok
          THEN /\ consecutive_errors' = BatteryOk(consecutive_errors)
               /\ fail_streak' = 0
               /\ spc' = "monitor"
               /\ UNCHANGED << ws_teardown, ws_health_pending >>
          ELSE /\ consecutive_errors' = BatteryFailed(consecutive_errors)
               /\ fail_streak' = fail_streak + 1
               /\ IF TooManyErrors(consecutive_errors')
                  THEN /\ spc' = "close"
                       /\ ws_teardown' = "health"
                       /\ ws_health_pending' = TRUE
                  ELSE /\ spc' = "monitor"
                       /\ UNCHANGED << ws_teardown, ws_health_pending >>
    /\ UNCHANGED << wsOthers, wdVars, mv_pcs, ws_streaming, ws_sigint, ws_running, ws_alive, reconnect_count, cam,
                    ws_attempts, ws_delays, ws_sessions, ws_late >>

\* lines 442-444: the with block is left and the session closed; an
\* exception of the close is caught at line 444.
SupClose ==
    /\ WsSup
    /\ spc = "close"
    /\ \E ok \in BOOLEAN : spc' = IF ok THEN "after" ELSE "except"
    /\ ws_streaming' = FALSE
    /\ UNCHANGED << wsOthers, wdVars, mv_pcs, ws_health_pending, ws_sigint, ws_running, ws_alive, reconnect_count,
                    consecutive_errors, cam, ws_attempts, ws_delays, ws_sessions,
                    ws_late, fail_streak, ws_teardown >>

\* lines 444-446: except Exception: reconnect_count += 1
SupExcept ==
    /\ WsSup
    /\ spc = "except"
    /\ reconnect_count' = reconnect_count + 1
    /\ spc' = "after"
    /\ UNCHANGED << wsOthers, wdVars, mv_pcs, wsExt, ws_running, ws_alive, consecutive_errors,
                    cam, ws_attempts, ws_delays, ws_sessions, ws_late,
                    fail_streak, ws_teardown >>

\* Mutant of SupAfter: the next attempt follows without the delay.
SupAfter_NoDelay ==
    /\ WsSup
    /\ spc = "after"
    /\ spc' = "while"
    /\ UNCHANGED << wsOthers, wdVars, mv_pcs, wsExt, ws_running, ws_alive, reconnect_count,
                    consecutive_errors, cam, ws_attempts, ws_delays, ws_sessions,
                    ws_late, fail_streak, ws_teardown >>

\* Mutant of SupAfter: the delay is made whatever running is.
SupAfter_AlwaysDelay ==
    /\ WsSup
    /\ spc = "after"
    /\ spc' = "delay"
    /\ UNCHANGED << wsOthers, wdVars, mv_pcs, wsExt, ws_running, ws_alive, reconnect_count,
                    consecutive_errors, cam, ws_attempts, ws_delays, ws_sessions,
                    ws_late, fail_streak, ws_teardown >>

\* line 449: if running
SupAfter ==
    /\ WsSup
    /\ spc = "after"
    /\ spc' = IF ws_running THEN "delay" ELSE "while"
    /\ UNCHANGED << wsOthers, wdVars, mv_pcs, wsExt, ws_running, ws_alive, reconnect_count,
                    consecutive_errors, cam, ws_attempts, ws_delays, ws_sessions,
                    ws_late, fail_streak, ws_teardown >>

\* lines 450-451: time.sleep(5)
SupDelay ==
    /\ WsSup
    /\ spc = "delay"
    /\ ws_delays' = ws_delays + 1
    /\ ws_late' = ws_late + Late(ws_running)
    /\ spc' = "while"
    /\ UNCHANGED << wsOthers, wdVars, mv_pcs, wsExt, ws_running, ws_alive, reconnect_count,
                    consecutive_errors, cam, ws_attempts, ws_sessions,
                    fail_streak, ws_teardown >>

\* Mutant of SupPost: the function returns without clearing running.
SupPost_NoStop ==
    /\ WsSup
    /\ spc = "post"
    /\ spc' = "returned"
    /\ UNCHANGED << wsOthers, wdVars, mv_pcs, wsExt, ws_running, ws_alive,
                    reconnect_count, consecutive_errors, cam, ws_attempts,
                    ws_delays, ws_sessions, ws_late, fail_streak, ws_teardown >>

\* lines 453-455: if reconnect_count >= max_reconnects: running = False
SupPost ==
    /\ WsSup
    /\ spc = "post"
    /\ ws_running' = IF reconnect_count >= max_reconnects THEN FALSE
                     ELSE ws_running
    /\ spc' = "returned"
    /\ UNCHANGED << wsOthers, wdVars, mv_pcs, wsExt, ws_alive, reconnect_count,
                    consecutive_errors, cam, ws_attempts, ws_delays, ws_sessions,
                    ws_late, fail_streak, ws_teardown >>

\* signal_handler, lines 58-67: a SIGINT while running is already False
\* calls os._exit(1), which ends the process and every thread in it;
\* otherwise running = False.
WsSignalHandler ==
    /\ script \in {"with_sensors", "with_sensors_move", "with_sensors_data"}
    /\ ws_alive
    /\ IF ~ws_running
       THEN /\ ws_alive' = FALSE
            /\ mv_pcs' = [k \in DOMAIN mv_pcs |-> "killed"]
            /\ cam' = "killed"
            /\ bpc' = "killed"
            /\ scpc' = "killed"
            /\ mfpc' = "killed"
            /\ UNCHANGED ws_running
       ELSE /\ ws_running' = FALSE
            /\ UNCHANGED << ws_alive, mv_pcs, cam, bpc, scpc, mfpc >>
    /\ ws_sigint' = TRUE
    /\ UNCHANGED << wsOthers, csv_open, sensor_data, data_lock, csv_file, csv_flushed,
                    data_points_counter, sdata_row, sdelivered, data_copy,
                    backup_file, ws_streaming, ws_health_pending, spc,
                    reconnect_count, consecutive_errors, ws_attempts,
                    ws_delays, ws_sessions, ws_late, fail_streak, ws_teardown >>

\* camera_recording_thread, lines 175-184: the camera is opened; if it
\* cannot be, running = False and the thread returns.
CamOpen ==
    /\ WsControl
    /\ cam = "init"
    /\ \E ok \in BOOLEAN :
          IF ok
          THEN cam' = "recording" /\ UNCHANGED ws_running
          ELSE cam' = "failed" /\ ws_running' = FALSE
    /\ UNCHANGED << wsOthers, wdVars, mv_pcs, wsExt, ws_alive, spc, reconnect_count,
                    consecutive_errors, ws_attempts, ws_delays, ws_sessions,
                    ws_late, fail_streak, ws_teardown >>

\* camera_recording_thread, lines 201-233: the loop ends when running is
\* False.
CamLoop ==
    /\ WsControl
    /\ cam = "recording"
    /\ ~ws_running
    /\ cam' = "stopped"
    /\ UNCHANGED << wsOthers, wdVars, mv_pcs, wsExt, ws_running, ws_alive, spc, reconnect_count,
                    consecutive_errors, ws_attempts, ws_delays, ws_sessions,
                    ws_late, fail_streak, ws_teardown >>

\* camera_recording_thread, lines 235-237: an exception while recording
\* sets running = False.
CamError ==
    /\ WsControl
    /\ cam = "recording"
    /\ cam' = "failed"
    /\ ws_running' = FALSE
    /\ UNCHANGED << wsOthers, wdVars, mv_pcs, wsExt, ws_alive, spc, reconnect_count,
                    consecutive_errors, ws_attempts, ws_delays, ws_sessions,
                    ws_late, fail_streak, ws_teardown >>

NextWsControl ==
    \/ SupWhile \/ SupConnect \/ SupSetup \/ SupMonitor \/ SupPoll \/ SupClose
    \/ SupExcept \/ SupAfter \/ SupDelay \/ SupPost
    \/ WsSignalHandler \/ CamOpen \/ CamLoop \/ CamError

----------------------------------------------------------------------------
(* sphero_move_and_collect_with_sensors.py: movement_thread, one instance   *)
(* per session set up                                                       *)

WsMove == script = "with_sensors_move" /\ ws_alive

\* The k-th movement_thread was given the session of the k-th successful
\* setup (line 402).  That session's with block (lines 385-442) is still
\* running when it is the latest one and has not been left.
SessionOpen(k) == k = Len(mv_pcs) /\ ws_streaming

\* lines 320-354: the test of running and one pass of the loop.  When
\* MOVEMENT_INTERVAL has elapsed, drive_with_heading is called on the
\* session the thread was given; the call returns or raises, and an
\* exception is caught at line 356.  Nothing else in the pass raises.
WsMvLoop ==
    /\ WsMove
    /\ \E k \in DOMAIN mv_pcs :
          /\ mv_pcs[k] = "loop"
          /\ IF ~ws_running
             THEN mv_pcs' = [mv_pcs EXCEPT ![k] = "stopped"]
             ELSE \E due \in BOOLEAN, raised \in BOOLEAN :
                     mv_pcs' = [mv_pcs EXCEPT
                                  ![k] = IF due /\ raised THEN "except"
                                         ELSE "loop"]
    /\ UNCHANGED << wsOthers, wdVars, wsSupVars >>

\* lines 356-359: the exception is printed, time.sleep(1), and the loop
\* goes on.
WsMvExcept ==
    /\ WsMove
    /\ \E k \in DOMAIN mv_pcs :
          /\ mv_pcs[k] = "except"
          /\ mv_pcs' = [mv_pcs EXCEPT ![k] = "loop"]
    /\ UNCHANGED << wsOthers, wdVars, wsSupVars >>

NextWsMove ==
    \/ WsMvLoop \/ WsMvExcept

----------------------------------------------------------------------------
(* sphero_move_and_collect_with_sensors.py: sensor_callback and             *)
(* backup_sensor_data_thread, while the session streams                     *)

InitWsData ==
    /\ sensor_data = << >>
    /\ data_lock = "free"
    /\ csv_file = << >>
    /\ csv_flushed = 0
    /\ data_points_counter = 0
    /\ scpc = "idle"
    /\ sdata_row = 0
    /\ sdelivered = 0
    /\ bpc = "wait"
    /\ data_copy = << >>
    /\ backup_file = << >>
    /\ csv_open = TRUE
    /\ mfpc = "run"

\* sensor_callback is part of both views of the data path: with the backup
\* thread and SIGINT while the session streams, and with main's finally.
WsData == script \in {"with_sensors_data", "with_sensors_close"} /\ ws_alive

WsBackup == script = "with_sensors_data" /\ ws_alive

WsClose == script = "with_sensors_close" /\ ws_alive

\* sensor_callback, lines 105-146: the timestamp is taken and the row built
\* (a response that is no dict gives a row of defaults).
SCbEnter ==
    /\ WsData
    /\ scpc = "idle"
    /\ sdelivered < MaxDataSamples
    /\ sdelivered' = sdelivered + 1
    /\ sdata_row' = sdelivered + 1
    /\ scpc' = "lock"
    /\ UNCHANGED << wsOthers, wsVars, wdMain, sensor_data, data_lock, csv_file,
                    csv_flushed, data_points_counter, bpc, data_copy,
                    backup_file >>

\* line 149: with data_lock (acquire)
SCbAcquire ==
    /\ WsData
    /\ scpc = "lock"
    /\ data_lock = "free"
    /\ data_lock' = "cb"
    /\ scpc' = "append"
    /\ UNCHANGED << wsOthers, wsVars, wdMain, sensor_data, csv_file, csv_flushed,
                    data_points_counter, sdata_row, sdelivered, bpc, data_copy,
                    backup_file >>

\* line 151: sensor_data.append(data_row)
SCbAppend ==
    /\ WsData
    /\ scpc = "append"
    /\ sensor_data' = Append(sensor_data, sdata_row)
    /\ scpc' = "writerow"
    /\ UNCHANGED << wsOthers, wsVars, wdMain, data_lock, csv_file, csv_flushed,
                    data_points_counter, sdata_row, sdelivered, bpc, data_copy,
                    backup_file >>

\* lines 154-159: csv_writer.writerow(data_row); data_points_counter += 1;
\* every fifth row is followed by a flush.  An exception of writerow leaves
\* the with block and is caught at line 166; writerow raises ValueError
\* when the file has been closed.
SCbWriteRow ==
    /\ WsData
    /\ scpc = "writerow"
    /\ \E ok \in BOOLEAN :
          IF ok /\ csv_open
          THEN /\ csv_file' = Append(csv_file, sdata_row)
               /\ data_points_counter' = data_points_counter + 1
               /\ scpc' = IF data_points_counter' % FlushEvery = 0
                          THEN "flush" ELSE "release"
          ELSE /\ UNCHANGED << csv_file, data_points_counter >>
               /\ scpc' = "release"
    /\ UNCHANGED << wsOthers, wsVars, wdMain, sensor_data, data_lock, csv_flushed,
                    sdata_row, sdelivered, bpc, data_copy, backup_file >>

\* line 160: csv_file.flush(); it raises ValueError when the file has been
\* closed, which is caught at line 166.
SCbFlush ==
    /\ WsData
    /\ scpc = "flush"
    /\ csv_flushed' = IF csv_open THEN Len(csv_file) ELSE csv_flushed
    /\ scpc' = "release"
    /\ UNCHANGED << wsOthers, wsVars, wdMain, sensor_data, data_lock, csv_file,
                    data_points_counter, sdata_row, sdelivered, bpc, data_copy,
                    backup_file >>

\* end of the with block of line 149 (release)
SCbRelease ==
    /\ WsData
    /\ scpc = "release"
    /\ data_lock' = "free"
    /\ scpc' = "idle"
    /\ UNCHANGED << wsOthers, wsVars, wdMain, sensor_data, csv_file, csv_flushed,
                    data_points_counter, sdata_row, sdelivered, bpc, data_copy,
                    backup_file >>

\* backup_sensor_data_thread, lines 243-252: the 30-second wait; the thread
\* ends when it finds running False.
BackupWait ==
    /\ WsBackup
    /\ bpc = "wait"
    /\ bpc' = IF ws_running THEN "acquire" ELSE "done"
    /\ UNCHANGED << wsOthers, wsVars, wdMain, sensor_data, data_lock, csv_file,
                    csv_flushed, data_points_counter, scpc, sdata_row,
                    sdelivered, data_copy, backup_file >>

\* line 255: with data_lock (acquire)
BackupAcquire ==
    /\ WsBackup
    /\ bpc = "acquire"
    /\ data_lock = "free"
    /\ data_lock' = "backup"
    /\ bpc' = "copy"
    /\ UNCHANGED << wsOthers, wsVars, wdMain, sensor_data, csv_file, csv_flushed,
                    data_points_counter, scpc, sdata_row, sdelivered, data_copy,
                    backup_file >>

\* line 256: data_copy = sensor_data.copy(), and the release of the lock
BackupCopy ==
    /\ WsBackup
    /\ bpc = "copy"
    /\ data_copy' = sensor_data
    /\ data_lock' = "free"
    /\ bpc' = "write"
    /\ UNCHANGED << wsOthers, wsVars, wdMain, sensor_data, csv_file, csv_flushed,
                    data_points_counter, scpc, sdata_row, sdelivered,
                    backup_file >>

\* The backup file without the first row of the copy.
BackupWrite_SkipsFirst ==
    /\ WsBackup
    /\ bpc = "write"
    /\ IF Len(data_copy) > 0
       THEN backup_file' = Tail(data_copy)
       ELSE UNCHANGED backup_file
    /\ bpc' = "wait"
    /\ UNCHANGED << wsOthers, wsVars, wdMain, sensor_data, data_lock, csv_file,
                    csv_flushed, data_points_counter, scpc, sdata_row,
                    sdelivered, data_copy >>

\* lines 259-278: a non-empty copy replaces the backup file (mode 'w'); a
\* storage fault leaves a prefix of it and is caught at line 277.
BackupWrite ==
    /\ WsBackup
    /\ bpc = "write"
    /\ IF Len(data_copy) > 0
       THEN \E k \in 0..Len(data_copy) : backup_file' = Prefix(data_copy, k)
       ELSE UNCHANGED backup_file
    /\ bpc' = "wait"
    /\ UNCHANGED << wsOthers, wsVars, wdMain, sensor_data, data_lock, csv_file,
                    csv_flushed, data_points_counter, scpc, sdata_row,
                    sdelivered, data_copy >>

\* main, lines 476-491: run_sensor_and_movement has returned, or raised;
\* finally: running = False, and the camera thread is joined for at most 5
\* seconds.  Callbacks of a session whose close raised, or that were in
\* flight when it was closed, still run.
WsMainFinally ==
    /\ WsClose
    /\ mfpc = "run"
    /\ ws_running' = FALSE
    /\ mfpc' = "close"
    /\ UNCHANGED << wsOthers, wdData, csv_open, ws_alive, spc, reconnect_count,
                    consecutive_errors, cam, ws_attempts, ws_delays,
                    ws_sessions, ws_late, fail_streak, ws_teardown, wsExt,
                    mv_pcs >>

\* main, lines 494-497: csv_file.flush(); csv_file.close().  data_lock is
\* not taken.
WsMainClose ==
    /\ WsClose
    /\ mfpc = "close"
    /\ csv_flushed' = Len(csv_file)
    /\ csv_open' = FALSE
    /\ mfpc' = "done"
    /\ UNCHANGED << wsOthers, wsVars, sensor_data, data_lock, csv_file,
                    data_points_counter, scpc, sdata_row, sdelivered, bpc,
                    data_copy, backup_file >>

NextWsData ==
    \/ SCbEnter \/ SCbAcquire \/ SCbAppend \/ SCbWriteRow \/ SCbFlush
    \/ SCbRelease
    \/ BackupWait \/ BackupAcquire \/ BackupCopy \/ BackupWrite
    \/ WsMainFinally \/ WsMainClose

----------------------------------------------------------------------------
(* unlimited_move.py: run_continuous_movement *)

InitUnlimited ==
    /\ um_running = TRUE
    /\ upc = "while"
    /\ um_late = 0
    /\ um_fault = "none"

Unlimited == script = "unlimited_move"

\* run_continuous_movement runs as the script unlimited_move.py, or called
\* by main of sphero_move_and_collect.py (line 307).
MovementCall == script = "move_and_collect" /\ mc_alive /\ mcpc = "movement"

Movement == Unlimited \/ MovementCall

\* line 42: while running
UmWhile ==
    /\ Movement
    /\ upc = "while"
    /\ upc' = IF um_running THEN "connect" ELSE "returned"
    /\ UNCHANGED << umOthers, um_running, um_late, um_fault >>

\* line 46: with Sphero(mac_address=MAC_ADDRESS) as sphero -- a connection
\* attempt.  It connects or raises (caught at line 91).
UmConnect ==
    /\ Movement
    /\ upc = "connect"
    /\ um_late' = um_late + Late(um_running)
    /\ \E ok \in BOOLEAN :
          /\ upc' = IF ok THEN "initial" ELSE "after"
          /\ um_fault' = IF ok THEN um_fault ELSE "connect"
    /\ UNCHANGED << umOthers, um_running >>

\* lines 47-54: wake and the initial drive command; an exception closes the
\* session and is caught at line 91.
UmInitial ==
    /\ Movement
    /\ upc = "initial"
    /\ \E ok \in BOOLEAN :
          /\ upc' = IF ok THEN "inner" ELSE "after"
          /\ um_fault' = IF ok THEN um_fault ELSE "initial"
    /\ UNCHANGED << umOthers, um_running, um_late >>

\* line 57: while running (the command loop)
UmInner ==
    /\ Movement
    /\ upc = "inner"
    /\ upc' = IF um_running THEN "command" ELSE "close"
    /\ UNCHANGED << umOthers, um_running, um_late, um_fault >>

\* Mutant of UmCommand: the exception of a drive command is not caught and
\* ends the function.
UmCommand_Fatal ==
    /\ Movement
    /\ upc = "command"
    /\ \E ok \in BOOLEAN :
          /\ upc' = IF ok THEN "inner" ELSE "returned"
          /\ um_fault' = IF ok THEN um_fault ELSE "command"
    /\ UNCHANGED << umOthers, um_running, um_late >>

\* lines 58-86: one drive command and the 0.2-second sleep; an exception
\* breaks out of the command loop.
UmCommand ==
    /\ Movement
    /\ upc = "command"
    /\ \E ok \in BOOLEAN :
          /\ upc' = IF ok THEN "inner" ELSE "close"
          /\ um_fault' = IF ok THEN um_fault ELSE "command"
    /\ UNCHANGED << umOthers, um_running, um_late >>

\* lines 88-92: the with block is left and the session closed; an
\* exception of the close is caught and printed at line 91.
UmClose ==
    /\ Movement
    /\ upc = "close"
    /\ upc' = "after"
    /\ UNCHANGED << umOthers, um_running, um_late, um_fault >>

\* line 95: if running
UmAfter ==
    /\ Movement
    /\ upc = "after"
    /\ upc' = IF um_running THEN "delay" ELSE "while"
    /\ UNCHANGED << umOthers, um_running, um_late, um_fault >>

\* lines 96-97: time.sleep(CONNECTION_RETRY_DELAY)
UmDelay ==
    /\ Movement
    /\ upc = "delay"
    /\ um_late' = um_late + Late(um_running)
    /\ upc' = "while"
    /\ UNCHANGED << umOthers, um_running, um_fault >>

\* signal_handler, lines 18-22: running = False
UmSignalHandler ==
    /\ Unlimited
    /\ um_running' = FALSE
    /\ UNCHANGED << umOthers, upc, um_late, um_fault >>

NextUnlimited ==
    \/ UmWhile \/ UmConnect \/ UmInitial \/ UmInner \/ UmCommand \/ UmClose
    \/ UmAfter \/ UmDelay \/ UmSignalHandler

----------------------------------------------------------------------------
(* sphero_move_and_collect.py *)

InitMoveCollect ==
    /\ mc_running = TRUE
    /\ mc_alive = TRUE
    /\ mc_handler = "default"
    /\ mcpc = "start"
    /\ mc_data = "unstarted"
    /\ mc_cam = "unstarted"

MoveCollect == script = "move_and_collect" /\ mc_alive

\* main, line 285: signal.signal(signal.SIGINT, signal_handler)
McInstall ==
    /\ MoveCollect
    /\ mcpc = "start"
    /\ mc_handler' = "module"
    /\ mcpc' = "threads"
    /\ UNCHANGED << mcOthers, umVars, mc_running, mc_alive, mc_data, mc_cam >>

\* main, lines 288-299: the data-collection and camera threads are started
McStartThreads ==
    /\ MoveCollect
    /\ mcpc = "threads"
    /\ mc_data' = "connect"
    /\ mc_cam' = "open"
    /\ mcpc' = "call"
    /\ UNCHANGED << mcOthers, umVars, mc_running, mc_alive, mc_handler >>

\* main, line 307, and unlimited_move.run_continuous_movement, lines 28-39:
\* the call installs unlimited_move.signal_handler for SIGINT, in place of
\* the handler of line 285, before its loop starts.
McEnterMovement ==
    /\ MoveCollect
    /\ mcpc = "call"
    /\ mc_handler' = "unlimited_move"
    /\ mcpc' = "movement"
    /\ UNCHANGED << mcOthers, umVars, mc_running, mc_alive, mc_data, mc_cam >>

\* run_continuous_movement returns to main (line 307 done)
McMovementReturned ==
    /\ MovementCall
    /\ upc = "returned"
    /\ mcpc' = "join"
    /\ UNCHANGED << mcOthers, umVars, mc_running, mc_alive, mc_handler,
                    mc_data, mc_cam >>

\* main, lines 313-315: each join returns when its thread has ended or
\* after 5 seconds
McJoin ==
    /\ MoveCollect
    /\ mcpc = "join"
    /\ mcpc' = "write"
    /\ UNCHANGED << mcOthers, umVars, mc_running, mc_alive, mc_handler,
                    mc_data, mc_cam >>

\* main, lines 318-321: the CSV and the metadata are written; an exception
\* leaves main and reaches the finally of line 328 as well.
McWrite ==
    /\ MoveCollect
    /\ mcpc = "write"
    /\ mcpc' = "finally"
    /\ UNCHANGED << mcOthers, umVars, mc_running, mc_alive, mc_handler,
                    mc_data, mc_cam >>

\* lines 328-330: finally: running = False
McFinally ==
    /\ MoveCollect
    /\ mcpc = "finally"
    /\ mc_running' = FALSE
    /\ mcpc' = "exit"
    /\ UNCHANGED << mcOthers, umVars, mc_alive, mc_handler, mc_data, mc_cam >>

Killed(pc) == IF pc \in {"unstarted", "done", "failed"} THEN pc ELSE "killed"

\* lines 331-334 and the end of the script: the interpreter exits and the
\* daemon threads that still run end with it.
McExit ==
    /\ MoveCollect
    /\ mcpc = "exit"
    /\ mc_alive' = FALSE
    /\ mc_data' = Killed(mc_data)
    /\ mc_cam' = Killed(mc_cam)
    /\ mcpc' = "exited"
    /\ UNCHANGED << mcOthers, umVars, mc_running, mc_handler >>

\* SIGINT is delivered to the main thread and the installed handler runs:
\* the default handler raises KeyboardInterrupt in main (caught at line
\* 326); signal_handler, lines 45-51, sets running and
\* unlimited_move.running to False; unlimited_move.signal_handler,
\* unlimited_move.py lines 18-22, sets unlimited_move.running to False.
McSigint ==
    /\ MoveCollect
    /\ mcpc \notin {"exit", "exited"}
    /\ CASE mc_handler = "default" ->
              /\ mcpc' = "finally"
              /\ UNCHANGED << mc_running, um_running >>
         [] mc_handler = "module" ->
              /\ mc_running' = FALSE
              /\ um_running' = FALSE
              /\ UNCHANGED mcpc
         [] mc_handler = "unlimited_move" ->
              /\ um_running' = FALSE
              /\ UNCHANGED << mc_running, mcpc >>
    /\ UNCHANGED << mcOthers, upc, um_late, um_fault, mc_alive, mc_handler, mc_data,
                    mc_cam >>

\* data_collection_thread, lines 122-144: the thread's own connection, wake
\* and set_notify; an exception is caught at line 157: running = False.
McDataConnect ==
    /\ MoveCollect
    /\ mc_data = "connect"
    /\ \E ok \in BOOLEAN :
          IF ok
          THEN mc_data' = "loop" /\ UNCHANGED mc_running
          ELSE mc_data' = "failed" /\ mc_running' = FALSE
    /\ UNCHANGED << mcOthers, umVars, mc_alive, mc_handler, mcpc, mc_cam >>

\* lines 147-148: while running: time.sleep(0.1)
McDataLoop ==
    /\ MoveCollect
    /\ mc_data = "loop"
    /\ mc_data' = IF mc_running THEN "loop" ELSE "cancel"
    /\ UNCHANGED << mcOthers, umVars, mc_running, mc_alive, mc_handler, mcpc,
                    mc_cam >>

\* lines 150-159: cancel_notify_sensors (its exception is printed) and the
\* end of the with block; an exception of the close is caught at line 157.
McDataCancel ==
    /\ MoveCollect
    /\ mc_data = "cancel"
    /\ \E ok \in BOOLEAN :
          IF ok
          THEN mc_data' = "done" /\ UNCHANGED mc_running
          ELSE mc_data' = "failed" /\ mc_running' = FALSE
    /\ UNCHANGED << mcOthers, umVars, mc_alive, mc_handler, mcpc, mc_cam >>

\* camera_recording_thread, lines 165-203: the camera and the video writer
\* are opened; if either fails, running = False and the thread returns.
McCamOpen ==
    /\ MoveCollect
    /\ mc_cam = "open"
    /\ \E ok \in BOOLEAN :
          IF ok
          THEN mc_cam' = "loop" /\ UNCHANGED mc_running
          ELSE mc_cam' = "failed" /\ mc_running' = FALSE
    /\ UNCHANGED << mcOthers, umVars, mc_alive, mc_handler, mcpc, mc_data >>

\* lines 206-231: while running: a frame is read and written; a frame that
\* cannot be read, or an exception, ends the loop.
McCamLoop ==
    /\ MoveCollect
    /\ mc_cam = "loop"
    /\ \E ok \in BOOLEAN :
          mc_cam' = IF mc_running /\ ok THEN "loop" ELSE "done"
    /\ UNCHANGED << mcOthers, umVars, mc_running, mc_alive, mc_handler, mcpc,
                    mc_data >>

NextMoveCollect ==
    \/ McInstall \/ McStartThreads \/ McEnterMovement \/ McMovementReturned
    \/ McJoin \/ McWrite \/ McFinally \/ McExit \/ McSigint
    \/ McDataConnect \/ McDataLoop \/ McDataCancel
    \/ McCamOpen \/ McCamLoop

----------------------------------------------------------------------------
(* The headings passed to drive_with_heading by the movement routines *)

InitHeadings ==
    /\ hd_caller = "none"
    /\ hd_heading = 0

HeadingsView == script = "headings"

\* random.randint(a, b) gives any integer of a..b; the values drawn here are
\* the ends of the range, their neighbours and the middle.
randint(a, b) == {a, a + 1, (a + b) \div 2, b - 1, b}

\* Python's range(start, stop, step), for step > 0
range(start, stop, step) ==
    IF stop <= start THEN {}
    ELSE { start + k * step : k \in 0..((stop - start - 1) \div step) }

\* sphero_data_collector.py, random_movement, lines 146-183: one
\* drive_with_heading call of the pattern chosen by movement_type.
random_movement ==
    /\ HeadingsView
    /\ \E movement_type \in 0..3 :
          CASE movement_type = 0 ->
                 hd_heading' \in randint(0, 359)
            [] movement_type = 1 ->
                 \E start_heading \in randint(0, 359),
                    arc_size \in randint(30, 90),
                    direction \in {1, -1},
                    i \in range(0, 3, 1) :
                    hd_heading' = (start_heading
                                     + direction * i * (arc_size \div 3)) % 360
            [] movement_type = 2 ->
                 hd_heading' \in randint(0, 359)
            [] movement_type = 3 ->
                 hd_heading' \in range(0, 361, 60)
    /\ hd_caller' = "random_movement"
    /\ UNCHANGED hdOthers

\* sphero-sensor-reader-proper.py, main, lines 53-73: one
\* drive_with_heading call of the pattern chosen by i % 3.
driving_patterns ==
    /\ HeadingsView
    /\ \E i \in range(0, 15, 1) :
          CASE i % 3 = 0 -> hd_heading' = (i * 30) % 360
            [] i % 3 = 1 -> hd_heading' \in range(0, 361, 60)
            [] OTHER -> hd_heading' \in randint(0, 359)
    /\ hd_caller' = "driving_patterns"
    /\ UNCHANGED hdOthers

\* working.py, continuous_random_movement_thread, lines 197 and 221: the
\* heading of the movement command and of the recovery command.
continuous_random_movement_heading ==
    /\ HeadingsView
    /\ hd_heading' \in randint(0, 359)
    /\ hd_caller' = "continuous_random_movement_thread"
    /\ UNCHANGED hdOthers

NextHeadings ==
    \/ random_movement \/ driving_patterns
    \/ continuous_random_movement_heading

----------------------------------------------------------------------------
(* sphero/main.py: class SpheroBLEAK *)

InitBleak ==
    /\ is_connected = FALSE
    /\ client = "none"
    /\ sequence = 0
    /\ bl_op = "init"
    /\ bl_args = << >>
    /\ bl_ret = FALSE
    /\ bl_wire = << >>

Bleak == script = "bleak"

\* connect, lines 40-79.  The device is not found (line 48), or
\* client.connect() raises, or start_notify raises after is_connected was
\* set (line 53), or the call succeeds; an exception of the Anti-DOS write
\* is ignored.  Every exception ends in is_connected = False, return False.
\* connect is called on an object whose client is not open.
connect ==
    /\ Bleak
    /\ client # "open"
    /\ \E outcome \in {"not_found", "connect_raised", "notify_raised", "ok"} :
          /\ client' = CASE outcome = "not_found" -> client
                          [] outcome = "connect_raised" -> "closed"
                          [] OTHER -> "open"
          /\ is_connected' = (outcome = "ok")
          /\ bl_ret' = (outcome = "ok")
    /\ bl_op' = "connect"
    /\ bl_args' = << >>
    /\ bl_wire' = << >>
    /\ UNCHANGED << blOthers, sequence >>

\* disconnect, lines 81-86: nothing unless client is set and is_connected;
\* client.disconnect() returns, or raises before is_connected is cleared,
\* with the connection closed or not.
disconnect ==
    /\ Bleak
    /\ IF client # "none" /\ is_connected
       THEN \E ok \in BOOLEAN :
               IF ok
               THEN client' = "closed" /\ is_connected' = FALSE
               ELSE client' \in {"open", "closed"} /\ UNCHANGED is_connected
       ELSE UNCHANGED << client, is_connected >>
    /\ bl_op' = "disconnect"
    /\ bl_args' = << >>
    /\ bl_ret' = FALSE
    /\ bl_wire' = << >>
    /\ UNCHANGED << blOthers, sequence >>

\* Mutant of send_command: sequence advances only when the write succeeds.
send_command_AdvanceOnSuccess(cmd_id, data, written) ==
    IF ~is_connected \/ client = "none"
    THEN /\ bl_ret' = FALSE
         /\ bl_wire' = << >>
         /\ UNCHANGED sequence
    ELSE IF written /\ client = "open"
         THEN /\ sequence' = (sequence + 1) % 256
              /\ bl_wire' = << RequestFlags, cmd_id, sequence % 256 >> \o data
              /\ bl_ret' = TRUE
         ELSE /\ UNCHANGED sequence
              /\ bl_wire' = << >>
              /\ bl_ret' = FALSE

\* Mutant of send_command: is_connected is not tested.
send_command_Unchecked(cmd_id, data, written) ==
    IF client = "none"
    THEN /\ bl_ret' = FALSE
         /\ bl_wire' = << >>
         /\ UNCHANGED sequence
    ELSE /\ sequence' = (sequence + 1) % 256
         /\ IF written /\ client = "open"
            THEN /\ bl_wire' = << RequestFlags, cmd_id, sequence % 256 >> \o data
                 /\ bl_ret' = TRUE
            ELSE /\ bl_wire' = << >>
                 /\ bl_ret' = FALSE

\* send_command, lines 116-139.  Not connected: return False.  Otherwise
\* the packet is built with the current sequence, sequence advances, and
\* write_gatt_char writes the packet or raises (it raises when the
\* connection is not open).
send_command(cmd_id, data, written) ==
    IF ~is_connected \/ client = "none"
    THEN /\ bl_ret' = FALSE
         /\ bl_wire' = << >>
         /\ UNCHANGED sequence
    ELSE /\ sequence' = (sequence + 1) % 256
         /\ IF written /\ client = "open"
            THEN /\ bl_wire' = << RequestFlags, cmd_id, sequence % 256 >> \o data
                 /\ bl_ret' = TRUE
            ELSE /\ bl_wire' = << >>
                 /\ bl_ret' = FALSE

\* wake, lines 141-144
wake ==
    /\ Bleak
    /\ \E written \in BOOLEAN : send_command(CMD_WAKE, << >>, written)
    /\ bl_op' = "wake"
    /\ bl_args' = << >>
    /\ UNCHANGED << blOthers, is_connected, client >>

Max(a, b) == IF a >= b THEN a ELSE b

Min(a, b) == IF a <= b THEN a ELSE b

\* Mutant of to_bytes: the bytes in little-endian order.
to_bytes_little(n) == << n % 256, (n \div 256) % 256 >>

\* int.to_bytes(2, byteorder='big'), line 164, for n in 0..65535
to_bytes(n) == << (n \div 256) % 256, n % 256 >>

\* lines 160-161: the speed is clamped when it is outside 0..255
ClampSpeed(speed) ==
    IF speed < 0 \/ speed > 255 THEN Max(0, Min(255, speed)) ELSE speed

\* lines 163-164: the data bytes of the drive command; Python's % with a
\* positive modulus gives a result in 0..359 for negative headings too.
DriveData(speed, heading) ==
    << ClampSpeed(speed) >> \o to_bytes(heading % 360) \o << 1 >>

\* drive, lines 157-167
drive ==
    /\ Bleak
    /\ \E speed \in Speeds, heading \in Headings, written \in BOOLEAN :
          /\ send_command(CMD_DRIVE, DriveData(speed, heading), written)
          /\ bl_args' = << speed, heading >>
    /\ bl_op' = "drive"
    /\ UNCHANGED << blOthers, is_connected, client >>

NextBleak ==
    \/ connect \/ disconnect \/ wake \/ drive

----------------------------------------------------------------------------
(***************************************************************************)
(* sphero_move_and_collect.py: start_timestamp.  sensor_callback runs on   *)
(* the thread that delivers the notifications and                          *)
(* camera_recording_thread on its own thread; both test and set the global *)
(* without a lock, so a step of one can fall between the reading of the    *)
(* clock, the test and the assignment of the other.                        *)
(***************************************************************************)

\* line 43: start_timestamp = None
None == -1

InitStamps ==
    /\ clock = 0
    /\ start_timestamp = None
    /\ current_time = 0
    /\ recording_start_time = 0
    /\ stcb = "idle"
    /\ stcam = "start"
    /\ st_rows = << >>
    /\ st_calls = 0
    /\ st_assigned = 0

Stamps == script = "move_and_collect_stamps"

\* time.time(): the clock does not run backwards
Now == {t \in clock..(clock + 1) : t <= MaxClock}

\* sensor_callback, line 71: current_time = time.time()
StCbTime ==
    /\ Stamps
    /\ stcb = "idle"
    /\ st_calls < MaxSamples
    /\ \E t \in Now :
          /\ clock' = t
          /\ current_time' = t
    /\ stcb' = "test"
    /\ st_calls' = st_calls + 1
    /\ UNCHANGED << stOthers, start_timestamp, recording_start_time, stcam,
                    st_rows, st_assigned >>

\* sensor_callback, line 72: if start_timestamp is None
StCbTest ==
    /\ Stamps
    /\ stcb = "test"
    /\ stcb' = IF start_timestamp = None THEN "assign" ELSE "row"
    /\ UNCHANGED << stOthers, clock, start_timestamp, current_time,
                    recording_start_time, stcam, st_rows, st_calls,
                    st_assigned >>

\* sensor_callback, line 73: start_timestamp = current_time
StCbAssign ==
    /\ Stamps
    /\ stcb = "assign"
    /\ start_timestamp' = current_time
    /\ st_assigned' = st_assigned + 1
    /\ stcb' = "row"
    /\ UNCHANGED << stOthers, clock, current_time, recording_start_time, stcam,
                    st_rows, st_calls >>

\* sensor_callback, lines 75-112: relative_timestamp is computed and the
\* row is appended to sensor_data, unless the payload raises (line 111)
StCbRow ==
    /\ Stamps
    /\ stcb = "row"
    /\ \E ok \in BOOLEAN :
          st_rows' = IF ok THEN Append(st_rows, current_time - start_timestamp)
                     ELSE st_rows
    /\ stcb' = "idle"
    /\ UNCHANGED << stOthers, clock, start_timestamp, current_time,
                    recording_start_time, stcam, st_calls, st_assigned >>

\* camera_recording_thread, lines 165-201: camera and writer are opened;
\* if either fails the thread returns, else
\* recording_start_time = time.time()
StCamTime ==
    /\ Stamps
    /\ stcam = "start"
    /\ \E opened \in BOOLEAN :
          IF opened
          THEN /\ \E t \in Now :
                     /\ clock' = t
                     /\ recording_start_time' = t
               /\ stcam' = "test"
          ELSE /\ stcam' = "done"
               /\ UNCHANGED << clock, recording_start_time >>
    /\ UNCHANGED << stOthers, start_timestamp, current_time, stcb, st_rows,
                    st_calls, st_assigned >>

\* camera_recording_thread, line 202: if start_timestamp is None
StCamTest ==
    /\ Stamps
    /\ stcam = "test"
    /\ stcam' = IF start_timestamp = None THEN "assign" ELSE "done"
    /\ UNCHANGED << stOthers, clock, start_timestamp, current_time,
                    recording_start_time, stcb, st_rows, st_calls,
                    st_assigned >>

\* camera_recording_thread, line 203: start_timestamp = recording_start_time
StCamAssign ==
    /\ Stamps
    /\ stcam = "assign"
    /\ start_timestamp' = recording_start_time
    /\ st_assigned' = st_assigned + 1
    /\ stcam' = "done"
    /\ UNCHANGED << stOthers, clock, current_time, recording_start_time, stcb,
                    st_rows, st_calls >>

NextStamps ==
    \/ StCbTime \/ StCbTest \/ StCbAssign \/ StCbRow
    \/ StCamTime \/ StCamTest \/ StCamAssign

----------------------------------------------------------------------------
(***************************************************************************)
(* working.py: sensor_callback and the row it builds.  A row is the tuple  *)
(* of its seven fields; the timestamp is the number of the invocation, as  *)
(* in the rest of the script's model.                                      *)
(***************************************************************************)

\* lines 85-96: the names sensor_callback looks for in str(sensor_key), in
\* the order of the row's fields
Channels == << "Accelerometer.x", "Accelerometer.y", "Accelerometer.z",
               "Gyroscope.x", "Gyroscope.y", "Gyroscope.z" >>

\* The mappings passed as response: their keys are none, one, all, or all
\* but one, of the six channels and of a key sensor_callback does not look
\* for; the value of a key differs from key to key and from invocation to
\* invocation, and is never 0.
Payloads(n) ==
    LET Keys == {Channels[i] : i \in DOMAIN Channels} \cup {"Quaternion.w"}
        Value(k) ==
            10 * n + (CHOOSE i \in 1..7 :
                         IF k = "Quaternion.w" THEN i = 7 ELSE Channels[i] = k)
    IN  {[k \in S |-> Value(k)] :
            S \in {T \in SUBSET Keys : Cardinality(T) \in {0, 1, 6, 7}}}

\* lines 78-96: a field is 0.0 unless an item of the mapping carries the
\* channel's name; then it is that item's value
Field(response, channel) ==
    IF channel \in DOMAIN response THEN response[channel] ELSE 0

\* Mutant of DataRow: the two x channels change places.
DataRow_Swapped(time, response) ==
    << time >> \o [i \in 1..6 |->
                      Field(response, Channels[IF i = 1 THEN 4
                                               ELSE IF i = 4 THEN 1 ELSE i])]

\* lines 98-103: data_row
DataRow(time, response) ==
    << time >> \o [i \in 1..6 |-> Field(response, Channels[i])]

InitCallback ==
    /\ cb_data_buffer = << >>
    /\ cb_total_samples = 0
    /\ cb_response = << >>
    /\ cb_raised = FALSE

\* sensor_callback, lines 66-116: one invocation.  An exception of the
\* statements of lines 73-103 (a response without items(), a key whose
\* str() raises) is caught at line 115, before anything is appended.
sensor_callback ==
    /\ script = "working_callback"
    /\ cb_total_samples < MaxSamples
    /\ \E response \in Payloads(Len(cb_data_buffer) + 1), raised \in BOOLEAN :
          /\ cb_response' = response
          /\ cb_raised' = raised
          /\ IF raised
             THEN UNCHANGED << cb_data_buffer, cb_total_samples >>
             ELSE /\ cb_data_buffer' =
                        Append(cb_data_buffer,
                               DataRow(Len(cb_data_buffer) + 1, response))
                  /\ cb_total_samples' = cb_total_samples + 1
    /\ UNCHANGED << cbOthers >>

----------------------------------------------------------------------------

Scripts == {"working", "working_move", "with_sensors", "with_sensors_move",
            "with_sensors_data", "with_sensors_close", "unlimited_move",
            "move_and_collect", "move_and_collect_stamps", "working_callback",
            "headings", "bleak"}

Init ==
    /\ script \in Scripts
    /\ InitWorking
    /\ InitWorkingMove
    /\ InitWsControl
    /\ InitWsData
    /\ InitUnlimited
    /\ InitMoveCollect
    /\ InitHeadings
    /\ InitBleak
    /\ InitStamps
    /\ InitCallback

Next ==
    \/ NextWorking
    \/ NextWorkingMove
    \/ NextWsControl
    \/ NextWsMove
    \/ NextWsData
    \/ NextUnlimited
    \/ NextMoveCollect
    \/ NextHeadings
    \/ NextBleak
    \/ NextStamps
    \/ sensor_callback

Spec == Init /\ [][Next]_vars

\* The steps of run_sensor_and_movement and of run_continuous_movement.
SupervisorStep ==
    \/ SupWhile \/ SupConnect \/ SupSetup \/ SupMonitor \/ SupPoll \/ SupClose
    \/ SupExcept \/ SupAfter \/ SupDelay \/ SupPost

UmStep ==
    \/ UmWhile \/ UmConnect \/ UmInitial \/ UmInner \/ UmCommand \/ UmClose
    \/ UmAfter \/ UmDelay

\* The supervisor's thread keeps being scheduled and every device call and
\* sleep it makes returns.
FairSpec == Init /\ [][Next]_vars /\ WF_vars(SupervisorStep) /\ WF_vars(UmStep)

\* The steps of the threads of working.py that hold or wait for
\* buffer_lock, and of main's data collection loop.
WriterStep ==
    \/ WriterHeader \/ WriterLoop \/ WriterCheckLen \/ WriterAcquire
    \/ WriterCopy \/ WriterClear \/ WriterRelease \/ WriterWrite \/ WriterSleep

CallbackStep == CbAcquire \/ CbAppend \/ CbRelease

\* The steps of the threads of sphero_move_and_collect_with_sensors.py.
CameraStep == CamOpen \/ CamLoop

BackupStep == BackupWait \/ BackupAcquire \/ BackupCopy \/ BackupWrite

SensorCallbackStep ==
    SCbAcquire \/ SCbAppend \/ SCbWriteRow \/ SCbFlush \/ SCbRelease

\* A step of the k-th movement_thread.
WsMvStepOf(k) ==
    /\ k \in DOMAIN mv_pcs
    /\ NextWsMove
    /\ mv_pcs'[k] # mv_pcs[k]

\* Every thread keeps being scheduled and every device call, storage call
\* and sleep it makes returns.  Nothing is assumed about main of working.py
\* after its loop, about the timer, or about the arrival of notifications
\* and signals.
FairTasks ==
    /\ Init /\ [][Next]_vars
    /\ WF_vars(SupervisorStep)
    /\ WF_vars(CameraStep)
    /\ WF_vars(BackupStep)
    /\ WF_vars(SensorCallbackStep)
    /\ \A k \in 1..MaxSessions : WF_vars(WsMvStepOf(k))
    /\ WF_vars(WriterStep)
    /\ WF_vars(CallbackStep)
    /\ WF_vars(NextWorkingMove)
    /\ WF_vars(MainLoopExit)

\* The timer thread started by signal_handler of working.py runs: when the
\* 5 seconds have passed it calls force_exit.
FairTimer == Init /\ [][Next]_vars /\ WF_vars(force_exit)

McMainStep ==
    \/ McInstall \/ McStartThreads \/ McEnterMovement \/ McMovementReturned
    \/ McJoin \/ McWrite \/ McFinally \/ McExit

\* The main thread of sphero_move_and_collect.py keeps being scheduled, in
\* main and in run_continuous_movement, and every device call, join and
\* sleep it makes returns.
FairMain == Init /\ [][Next]_vars /\ WF_vars(UmStep) /\ WF_vars(McMainStep)

----------------------------------------------------------------------------
(* Claims *)

Range(s) == { s[i] : i \in 1..Len(s) }

Pos(s, x) == CHOOSE i \in 1..Len(s) : s[i] = x

\* C1: no sample is written to the CSV file more than once, whatever the
\* interleaving of callback appends and periodic and final flushes.
C1_NoRowWrittenTwice ==
    \A i, j \in 1..Len(csv_rows) : i # j => csv_rows[i] # csv_rows[j]

\* A periodic flush has put rows into the file and the final flush is about
\* to write another batch.
C1_Witness ==
    /\ Len(csv_rows) > 0
    /\ wfinal
    /\ wpc = "write"
    /\ Len(buffer_copy) > 0

\* C2: once data_writer_thread has terminated, every sample the callback
\* appended to data_buffer is in the CSV file (samples of a batch whose write
\* raised are left aside here: the claim fails without them).
C2_NoSampleLost ==
    wpc = "done" =>
        \A r \in Range(appended) : r \in Range(csv_rows) \/ r \in lost

\* C3: rows are in the file in the order in which their samples were
\* appended to data_buffer, across flushes.
C3_RowsInAppendOrder ==
    /\ Range(csv_rows) \subseteq Range(appended)
    /\ \A i, j \in 1..Len(csv_rows) :
          i < j => Pos(appended, csv_rows[i]) < Pos(appended, csv_rows[j])

\* The file holds two rows and the last batch written is not the whole
\* file: the rows came from more than one flush.
C3_Witness ==
    /\ Len(csv_rows) >= 2
    /\ wpc \in {"sleep", "done"}
    /\ Len(buffer_copy) >= 1
    /\ Len(buffer_copy) < Len(csv_rows)

\* C4: data_buffer and sensor_data change only in a step of the thread that
\* holds the buffer's lock, and between a flush's copy and its clear the
\* buffer is not changed: what is cleared is exactly what was copied.
C4_BufferMutatedUnderLock ==
    [][ /\ data_buffer' # data_buffer =>
              \/ buffer_lock = "cb" /\ cpc = "append" /\ buffer_lock' = "cb"
              \/ buffer_lock = "writer" /\ wpc = "clear" /\ buffer_lock' = "writer"
        /\ (wpc = "clear" /\ wpc' # "clear") =>
              buffer_copy = data_buffer /\ data_buffer' = << >>
        /\ sensor_data' # sensor_data =>
              data_lock = "cb" /\ scpc = "append" /\ data_lock' = "cb"
      ]_vars

\* The writer is between its copy and its clear while the callback waits
\* for the lock with a row to append.
C4_Witness ==
    /\ wpc = "clear"
    /\ buffer_lock = "writer"
    /\ cpc = "lock"
    /\ Len(buffer_copy) > 0

\* C5 as stated: the buffer's lock is never held while a write or flush to
\* persistent storage is in progress, in working.py and in sensor_callback
\* of sphero_move_and_collect_with_sensors.py.
C5_LockNeverHeldAcrossIO ==
    /\ wpc = "write" => buffer_lock # "writer"
    /\ buffer_lock = "cb" => cpc \in {"append", "release"}
    /\ scpc \in {"writerow", "flush"} => data_lock # "cb"

\* C5 amended: in working.py the lock is held only for the append and for
\* the copy and clear, never during the write to the file; sensor_callback
\* of sphero_move_and_collect_with_sensors.py writes its row, and flushes
\* after every fifth row, while it holds data_lock.
C5_LockAndIO ==
    /\ wpc = "write" => buffer_lock # "writer"
    /\ buffer_lock = "cb" => cpc \in {"append", "release"}
    /\ buffer_lock = "writer" => wpc \in {"copy", "clear", "release"}
    /\ scpc \in {"writerow", "flush"} => data_lock = "cb"

\* sensor_callback flushes csv_file under data_lock while the backup thread
\* waits for the lock.
C5_Witness ==
    /\ scpc = "flush"
    /\ data_lock = "cb"
    /\ bpc = "acquire"

\* C6: from the moment data_writer_thread has terminated, data_buffer is
\* empty.
C6_BufferEmptyOnceTerminated ==
    wpc = "done" => data_buffer = << >>

\* C7: every connection attempt of run_sensor_and_movement after the first
\* is preceded by exactly one 5-second delay since the previous attempt or
\* session ended: when attempt n is about to start n-1 attempts and n-1
\* delays have been made, and during and after attempt n, until its delay,
\* there have been n-1 delays.
C7_OneDelayBeforeEachRetry ==
    /\ spc = "connect" => ws_delays = ws_attempts
    /\ spc \in {"setup", "monitor", "poll", "close", "except", "after", "delay"}
          => ws_delays = ws_attempts - 1

\* The first two attempts failed to connect and the third connected: the
\* monitor loop is entered after exactly two delays.
C7_Witness ==
    /\ spc = "monitor"
    /\ ws_attempts = 3
    /\ ws_sessions = 1
    /\ reconnect_count = 2
    /\ ws_delays = 2

\* C8: at most max_reconnects retries are ever made, counting the
\* re-attempts after a failed connection and after a session that ended.
C8_RetriesCapped ==
    ws_attempts - 1 <= max_reconnects

\* C9 as stated: once running is False no connection attempt and no retry
\* delay is started.
C9_NoStartOnceStopped ==
    ws_late = 0 /\ um_late = 0

\* C9 amended: once running is False the supervisor loops start at most one
\* more connection attempt or retry delay (the one whose test of running
\* had already passed), and the function returns unless the process is
\* force-exited.
C9_StopsAfterAtMostOneStart ==
    /\ [](ws_late <= 1 /\ um_late <= 1)
    /\ (script = "with_sensors" /\ ~ws_running)
          ~> (spc = "returned" \/ ~ws_alive)
    /\ (script = "unlimited_move" /\ ~um_running) ~> (upc = "returned")

\* run_sensor_and_movement has returned after starting one connection
\* attempt or delay with running already False.
C9_Witness ==
    /\ spc = "returned"
    /\ ws_late = 1
    /\ ws_alive

\* C10: consecutive_errors is the number of failed battery queries since
\* the session's last successful one (a success resets it, a failure adds
\* one); the monitor loop goes on only below max_errors and is left for
\* health reasons exactly at max_errors failed queries in a row.
C10_HealthTeardownAtThreshold ==
    /\ consecutive_errors = fail_streak
    /\ consecutive_errors <= max_errors
    /\ spc \in {"monitor", "poll"} => consecutive_errors < max_errors
    /\ (spc = "close" /\ ws_teardown = "health") => fail_streak = max_errors

\* The monitor loop has just been left for health reasons in the second
\* session.
C10_Witness ==
    /\ spc = "close"
    /\ ws_teardown = "health"
    /\ ws_sessions = 2

\* C11 as stated: after a health teardown the supervisor does not leave the
\* reconnect loop without a new connection attempt while the stop flag is
\* not set.
C11_NewAttemptUnlessStopped ==
    (ws_health_pending /\ spc = "post") => ~ws_running

\* C11 amended: after a health teardown the session is closed and, unless
\* the stop flag is set or reconnect_count has reached max_reconnects, a new
\* connection attempt follows after exactly one 5-second delay; when it
\* succeeds the monitor loop is entered with sensor notifications
\* subscribed again and consecutive_errors = 0.
C11_ReconnectAfterHealthTeardown ==
    /\ []((ws_health_pending /\ spc = "post")
            => (~ws_running \/ reconnect_count >= max_reconnects))
    /\ []((ws_health_pending /\ spc \in {"after", "except", "delay"})
            => (~ws_streaming /\ ws_delays = ws_attempts - 1))
    /\ []((ws_health_pending /\ spc = "while" /\ ws_running)
            => ws_delays = ws_attempts)
    /\ [](spc \in {"monitor", "poll"} => ws_streaming)
    /\ [][(spc = "setup" /\ spc' = "monitor")
            => (consecutive_errors' = 0 /\ ws_streaming')]_vars

\* The first session was torn down for health reasons and the one new
\* attempt connected: the second session is being monitored.
C11_Witness ==
    /\ ws_teardown = "health"
    /\ ws_attempts = 2
    /\ ws_delays = 1
    /\ spc = "monitor"
    /\ ws_sessions = 2
    /\ ws_streaming
    /\ consecutive_errors = 0

\* C12: when error_count reaches max_errors one recovery command is issued
\* and error_count is 0 afterwards, whether the recovery command returned
\* or raised.
C12_ErrorCountZeroAfterRecovery ==
    (mvpc = "sleep" /\ wm_recovery # "none") => error_count = 0

WsScripts == {"with_sensors", "with_sensors_move", "with_sensors_data"}

WkScripts == {"working", "working_move"}

\* The stop flag of the script that runs is False.
StopFlagSet ==
    \/ script \in WsScripts /\ ~ws_running
    \/ script \in WkScripts /\ ~wk_running

\* Every task of sphero_move_and_collect_with_sensors.py has ended.
WsTasksEnded ==
    /\ script \in {"with_sensors", "with_sensors_move"} => spc = "returned"
    /\ script = "with_sensors" => cam \in {"stopped", "failed"}
    /\ script = "with_sensors_data" => bpc = "done"
    /\ script = "with_sensors_move" =>
          \A k \in DOMAIN mv_pcs : mv_pcs[k] = "stopped"

\* Every started task of working.py has ended and main has left its loop.
WkTasksEnded ==
    /\ mpc # "loop"
    /\ script = "working" => wpc \in {"unstarted", "done", "crashed"}
    /\ script = "working_move" => mvpc \in {"unstarted", "done"}

\* The tasks of the script that runs have ended, or the process has been
\* force-exited.
TasksEnded ==
    \/ script \in WsScripts /\ (WsTasksEnded \/ ~ws_alive)
    \/ script \in WkScripts /\ (WkTasksEnded \/ ~wk_alive)

\* C13: once the stop flag is False every task leaves its loop and ends
\* (or the process is force-exited first): the supervisor, the camera
\* thread, the backup thread and every movement_thread of
\* sphero_move_and_collect_with_sensors.py, and the writer thread, the
\* movement thread and main's loop of working.py.  A test of the flag that
\* finds it False always leaves the loop, so a task runs at most the pass
\* it had already begun.
C13_TasksStopOnFlag ==
    /\ StopFlagSet ~> TasksEnded
    /\ [][(ws_alive' /\ wk_alive') =>
             /\ (mvpc = "while" /\ mvpc' # "while" /\ ~wk_running)
                   => mvpc' = "done"
             /\ (wpc = "loop" /\ wpc' # "loop" /\ ~wk_running) => wfinal'
             /\ (bpc = "wait" /\ bpc' # "wait" /\ ~ws_running)
                   => bpc' = "done"
             /\ (spc = "monitor" /\ spc' # "monitor" /\ ~ws_running)
                   => spc' = "close"
             /\ (spc = "while" /\ spc' # "while" /\ ~ws_running)
                   => spc' = "post"
             /\ (cam = "recording" /\ cam' # "recording" /\ ~ws_running)
                   => cam' \in {"stopped", "failed"}
             /\ \A k \in DOMAIN mv_pcs :
                   (mv_pcs[k] = "loop" /\ mv_pcs'[k] # "loop" /\ ~ws_running)
                   => mv_pcs'[k] = "stopped"]_vars

\* working.py: the flag was cleared while the movement thread was in a
\* pass of its loop, and the thread has ended with the process alive.
C13_Witness ==
    /\ script = "working_move"
    /\ mvpc = "done"
    /\ ~wk_running
    /\ wk_alive
    /\ consecutive_movement_errors > 0

\* C14: once signal_handler of working.py has run, running is False and
\* the timer is armed, and the process ends: by the script's own exit if
\* cleanup gets there first, by force_exit when the timer fires otherwise.
C14_SigintEndsProcess ==
    /\ [](wk_timer # "off" => ~wk_running)
    /\ [](wk_timer = "fired" => ~wk_alive)
    /\ [][wk_running' # wk_running /\ mpc' = mpc => wk_timer' = "armed"]_vars
    /\ (wk_timer # "off") ~> ~wk_alive

\* The timer fired while main was still waiting for the writer thread.
C14_Witness ==
    /\ wk_timer = "fired"
    /\ ~wk_alive
    /\ mpc = "join"

\* C15 as stated: run_sensor_and_movement has returned with running False
\* only if signal_handler has run.
C15_StoppedOnlyAfterSigint ==
    (spc = "returned" /\ ~ws_running) => ws_sigint

\* C15 amended: when run_sensor_and_movement has returned running is False,
\* and signal_handler has run, or the camera thread has failed, or
\* reconnect_count has reached max_reconnects.
C15_StoppedBySigintCameraOrCap ==
    spc = "returned" =>
        /\ ~ws_running
        /\ \/ ws_sigint
           \/ cam = "failed"
           \/ reconnect_count >= max_reconnects

\* The camera could not be opened (or recording raised): the supervisor
\* has returned although no SIGINT arrived and reconnects were left.
C15_Witness ==
    /\ spc = "returned"
    /\ ~ws_running
    /\ ~ws_sigint
    /\ cam = "failed"
    /\ reconnect_count < max_reconnects

\* A command of a movement thread has just raised and was caught.
CommandFaultCaught ==
    \/ /\ script = "working_move"
       /\ consecutive_movement_errors > 0
       /\ mvpc \in {"sleep", "recover", "while"}
    \/ /\ script = "with_sensors_move"
       /\ 1 \in DOMAIN mv_pcs
       /\ mv_pcs[1] = "except"

\* The thread is about to issue its next command, or the stop flag is
\* False, or the process has exited.
NextCommandOrStopped ==
    \/ /\ script = "working_move"
       /\ mvpc = "move" \/ ~wk_running \/ ~wk_alive
    \/ /\ script = "with_sensors_move"
       /\ \/ ~ws_running
          \/ ~ws_alive
          \/ 1 \in DOMAIN mv_pcs /\ mv_pcs[1] = "loop"

\* C16: an exception of drive_with_heading does not end the movement
\* thread and does not change the stop flag (a movement thread ends only
\* when the flag is False), and while the flag is True the thread comes
\* to issue its next command.
C16_CommandFaultNotFatal ==
    /\ [][/\ consecutive_movement_errors' > consecutive_movement_errors
               => (mvpc' \in {"sleep", "recover"} /\ wk_running' = wk_running)
          /\ (wm_recovery' = "raised" /\ wm_recovery # "raised")
               => (mvpc' = "sleep" /\ wk_running' = wk_running)
          /\ \A k \in DOMAIN mv_pcs :
                (mv_pcs'[k] = "except" /\ mv_pcs[k] # "except")
                => ws_running' = ws_running]_vars
    /\ [](mvpc = "done" => ~wk_running)
    /\ [](\A k \in DOMAIN mv_pcs : mv_pcs[k] = "stopped" => ~ws_running)
    /\ CommandFaultCaught ~> NextCommandOrStopped

\* working.py: after three failed commands in a row the thread is about to
\* issue the next one.
C16_Witness ==
    /\ script = "working_move"
    /\ mvpc = "move"
    /\ consecutive_movement_errors = 3
    /\ wk_running
    /\ wk_alive

\* C17: the rows that a failed write of data_writer_thread did not put into
\* the file are never written later and are not put back into data_buffer;
\* after a failed write in the loop the thread is back at the test of
\* running, after a failed final write it ends.
C17_FailedBatchNotRetried ==
    /\ [](\A r \in lost : r \notin Range(csv_rows) /\ r \notin Range(data_buffer))
    /\ [][lost' # lost =>
             /\ wpc' = IF wfinal THEN "done" ELSE "loop"
             /\ data_buffer' = data_buffer]_vars

\* The write of the first row failed, and the second row was written by a
\* later flush while the thread was still in its loop.
C17_Witness ==
    /\ lost = {1}
    /\ csv_rows = << 2 >>
    /\ wpc = "sleep"

\* The heading encoded by the two heading bytes of a drive packet.
HeadingOf(packet) == packet[5] * 256 + packet[6]

\* C18: whatever speed and heading drive is called with, the packet it
\* writes carries the speed clamped into 0..255, the heading reduced modulo
\* 360 into 0..359 as two big-endian bytes, and the direction flag 1.
C18_DrivePacket ==
    (bl_op = "drive" /\ bl_ret) =>
        /\ Len(bl_wire) = 7
        /\ \A i \in 1..7 : bl_wire[i] \in 0..255
        /\ bl_wire[2] = CMD_DRIVE
        /\ bl_wire[4] = (IF bl_args[1] < 0 THEN 0
                         ELSE IF bl_args[1] > 255 THEN 255 ELSE bl_args[1])
        /\ HeadingOf(bl_wire) \in 0..359
        /\ (bl_args[2] - HeadingOf(bl_wire)) % 360 = 0
        /\ bl_wire[7] = 1

\* drive(300, -90) was written: speed byte 255, heading 270 = 1 * 256 + 14.
C18_Witness ==
    /\ bl_op = "drive"
    /\ bl_ret
    /\ bl_args = << 300, -90 >>
    /\ bl_wire[4] = 255
    /\ bl_wire[5] = 1
    /\ bl_wire[6] = 14
    /\ bl_wire[7] = 1

NonDecreasing(stamps) ==
    \A i, j \in 1..Len(stamps) : i < j => stamps[i] <= stamps[j]

C20_SigintStopsCollectionAndMovement ==
    [][(McSigint /\ mcpc = "movement") => (~mc_running' /\ ~um_running')]_vars

\* A pass of the k-th movement_thread in which drive_with_heading was
\* called and raised.
DriveRaised(k) ==
    /\ k \in DOMAIN mv_pcs
    /\ mv_pcs[k] = "loop"
    /\ ws_running
    /\ mv_pcs' = [mv_pcs EXCEPT ![k] = "except"]

\* C21: no movement_thread calls drive_with_heading on a session whose
\* with block has been left: every call, and so every call that raises,
\* is made on the session that is open.
C21_CommandsOnlyThroughOpenSession ==
    [][\A k \in DOMAIN mv_pcs : DriveRaised(k) => SessionOpen(k)]_vars

LiveMovementThreads == { k \in DOMAIN mv_pcs : mv_pcs[k] \in {"loop", "except"} }

\* C22: at most one movement_thread is alive at any time.
C22_AtMostOneMovementThread == Cardinality(LiveMovementThreads) <= 1

\* C23: in sphero_move_and_collect.py, once the data-collection thread has
\* failed with an exception or the camera thread could not open the camera
\* (each sets running to False), the movement loop run by main returns
\* and main goes on to write the CSV and the metadata.
C23_ThreadFailureStopsMain ==
    (script = "move_and_collect" /\ (mc_data = "failed" \/ mc_cam = "failed"))
        ~> (mcpc \in {"finally", "exit", "exited"})

\* C24: in sphero_move_and_collect_with_sensors.py signal_handler ends the
\* process with os._exit only at a second SIGINT: the first SIGINT of a run
\* sets running to False and returns.
C24_ForceExitOnlyOnSecondSigint ==
    [][(WsSignalHandler /\ ~ws_sigint) => (ws_alive' /\ ~ws_running')]_vars

\* C25: every access to csv_file is made under data_lock: main does not
\* flush or close the file while sensor_callback is inside its locked
\* section, and no row is written to the file after it has been closed.
C25_CsvFileUnderDataLock ==
    /\ [][(csv_open /\ ~csv_open') => data_lock # "cb"]_vars
    /\ [][~csv_open => csv_file' = csv_file]_vars

\* C26: in run_continuous_movement an exception of a drive command ends
\* the command loop and the session is closed; with running still True
\* the retry delay and then a new connection attempt follow; and the
\* function returns only when running is False, whatever fails.
C26_ReconnectAfterCommandFault ==
    /\ [](upc = "returned" => ~um_running)
    /\ [][/\ upc = "command" => upc' \in {"command", "inner", "close"}
          /\ upc = "close" => upc' \in {"close", "after"}
          /\ (upc = "after" /\ um_running) => upc' \in {"after", "delay"}
          /\ upc = "delay" => upc' \in {"delay", "while"}
          /\ (upc # "connect" /\ upc' = "connect")
                => (upc = "while" /\ um_running)]_vars
    /\ (upc = "close" /\ um_fault = "command")
          ~> (upc = "connect" \/ ~um_running)

\* A new connection attempt is about to be made, with running True, after
\* a drive command of the session before raised.
C26_Witness ==
    /\ script = "unlimited_move"
    /\ upc = "connect"
    /\ um_running
    /\ um_fault = "command"

\* C27: every heading passed to drive_with_heading by random_movement, by
\* the driving patterns of sphero-sensor-reader-proper.py and by
\* continuous_random_movement_thread lies in 0..359.
C27_HeadingsNormalized ==
    hd_caller # "none" => hd_heading \in 0..359

\* C28: is_connected is True exactly when the BLE client's connection is
\* open; when connect() has returned False the client is not connected,
\* and after disconnect() has been called the client is disconnected.
C28_ConnectedIffClientOpen ==
    /\ is_connected <=> (client = "open")
    /\ (bl_op = "connect" /\ ~bl_ret) => client # "open"
    /\ bl_op = "disconnect" => client # "open"

\* A call of send_command, made by wake or by drive.
SendCommandCall == wake \/ drive

\* C29: sequence stays in 0..255, and a send_command made while connected
\* puts the current sequence in the third byte of the packet and advances
\* sequence by one modulo 256, whether the write succeeds or not.
C29_SequenceAdvancesModulo256 ==
    /\ [](sequence \in 0..255)
    /\ [][(SendCommandCall /\ is_connected /\ client # "none") =>
             /\ sequence' = (IF sequence = 255 THEN 0 ELSE sequence + 1)
             /\ bl_ret' => bl_wire'[3] = sequence]_vars

\* The command with sequence 255 was written and sequence wrapped to 0.
C29_Witness ==
    /\ bl_op \in {"wake", "drive"}
    /\ bl_ret
    /\ bl_wire[3] = 255
    /\ sequence = 0

\* C30: a send_command made while is_connected is False returns False,
\* writes no packet and leaves sequence unchanged.
C30_NotConnectedNoEffect ==
    [][(SendCommandCall /\ ~is_connected) =>
          /\ ~bl_ret'
          /\ bl_wire' = << >>
          /\ sequence' = sequence]_vars

\* A command was refused after commands had been sent in a session that
\* has since been closed.
C30_Witness ==
    /\ bl_op \in {"wake", "drive"}
    /\ ~bl_ret
    /\ ~is_connected
    /\ client = "closed"
    /\ sequence > 0

\* C31: in sphero_move_and_collect.py start_timestamp is assigned at most
\* once in a run, and every relative timestamp recorded in sensor_data is
\* greater than or equal to 0.
C31_StartTimestampAssignedOnce ==
    /\ st_assigned <= 1
    /\ \A i \in DOMAIN st_rows : st_rows[i] >= 0

\* C32, as stated: the backup file is an in-order prefix of sensor_data at
\* all times, no backup is written from an empty snapshot, and no backup is
\* written once running is False.
C32_NoBackupAfterStop ==
    /\ [](backup_file = Prefix(sensor_data, Len(backup_file)))
    /\ [][(BackupWrite /\ data_copy = << >>) => backup_file' = backup_file]_vars
    /\ [][(BackupWrite /\ data_copy # << >>) => ws_running]_vars

\* C32, amended: the backup file holds rows of one snapshot of sensor_data,
\* so it is an in-order prefix of sensor_data at all times; no backup is
\* written from an empty snapshot; the thread goes on to take a snapshot
\* only when its test of running (line 252) finds it True, and once the
\* test has found it False the thread has ended and the file is not
\* written again.
C32_BackupIsSnapshotPrefix ==
    /\ [](/\ backup_file = Prefix(sensor_data, Len(backup_file))
          /\ data_copy = Prefix(sensor_data, Len(data_copy))
          /\ Len(backup_file) <= Len(data_copy))
    /\ [][(BackupWrite /\ data_copy = << >>) => backup_file' = backup_file]_vars
    /\ [][(BackupWrite /\ data_copy # << >>)
            => backup_file' = Prefix(data_copy, Len(backup_file'))]_vars
    /\ [][BackupWait => (bpc' = "acquire" <=> ws_running)]_vars
    /\ [][bpc = "done" => (bpc' # "wait" /\ backup_file' = backup_file)]_vars

\* A whole snapshot of two rows is in the backup file, written after
\* running had become False, and sensor_data has grown since.
C32_Witness ==
    /\ script = "with_sensors_data"
    /\ Len(backup_file) = 2
    /\ backup_file = data_copy
    /\ Len(sensor_data) > Len(data_copy)
    /\ bpc = "wait"
    /\ ~ws_running

\* C33: in working.py consecutive_movement_errors equals the number of
\* execute_movement calls that have failed since the last one that
\* succeeded: a call that succeeds sets it to 0, a call that fails adds
\* exactly 1 to it, and once main has initialised it (line 259)
\* last_successful_movement changes only in a call that succeeds.
C33_ConsecutiveMovementErrors ==
    /\ [](consecutive_movement_errors = wm_failed)
    /\ [][MvExecute =>
            IF wm_failed' = 0
            THEN consecutive_movement_errors' = 0
            ELSE /\ consecutive_movement_errors' = consecutive_movement_errors + 1
                 /\ last_successful_movement' = last_successful_movement]_vars
    /\ [][(mvpc # "unstarted"
           /\ last_successful_movement' # last_successful_movement)
            => (MvExecute /\ wm_failed' = 0)]_vars

\* Two calls have failed in a row after a call that succeeded and stored a
\* later time.
C33_Witness ==
    /\ script = "working_move"
    /\ consecutive_movement_errors = 2
    /\ last_successful_movement = 2
    /\ mvpc = "sleep"

\* C34: in working.py an invocation of sensor_callback with a channel
\* mapping appends exactly one row of seven fields to data_buffer, the
\* timestamp and then accelerometer x, y, z and gyroscope x, y, z, each
\* the mapping's value for the channel, or 0.0 when the channel is absent,
\* and adds one to total_samples; an invocation whose payload cannot be
\* processed leaves data_buffer and total_samples unchanged.
C34_CallbackAppendsOneRow ==
    [][sensor_callback =>
        IF cb_raised'
        THEN /\ cb_data_buffer' = cb_data_buffer
             /\ cb_total_samples' = cb_total_samples
        ELSE /\ Len(cb_data_buffer') = Len(cb_data_buffer) + 1
             /\ Prefix(cb_data_buffer', Len(cb_data_buffer)) = cb_data_buffer
             /\ cb_total_samples' = cb_total_samples + 1
             /\ LET row == cb_data_buffer'[Len(cb_data_buffer')]
                IN  /\ Len(row) = 7
                    /\ \A i \in 1..6 :
                          row[i + 1] =
                              IF Channels[i] \in DOMAIN cb_response'
                              THEN cb_response'[Channels[i]]
                              ELSE 0]_vars

\* The second invocation was passed every channel but Gyroscope.x, and its
\* row is in data_buffer after the row of the first, which was passed
\* Accelerometer.y only.
C34_Witness ==
    /\ script = "working_callback"
    /\ ~cb_raised
    /\ cb_total_samples = 2
    /\ cb_data_buffer = << << 1, 0, 12, 0, 0, 0, 0 >>,
                           << 2, 21, 22, 23, 0, 25, 26 >> >>
    /\ DOMAIN cb_response = {"Accelerometer.x", "Accelerometer.y",
                             "Accelerometer.z", "Gyroscope.y", "Gyroscope.z",
                             "Quaternion.w"}

====
